---- MODULE Spec2Model ----
(***************************************************************************)
(* Verification model of the DeepBoner research assistant:                 *)
(*   - SearchHandler (src/tools/search_handler.py): scatter-gather over    *)
(*     the registered search tools, per-tool timeout, RAG auto-ingestion;  *)
(*   - evidence deduplication (extract_paper_id / source priority);        *)
(*   - the iterative search-judge loop and the judge's quota fallback;     *)
(*   - HierarchicalOrchestrator.run and ResearchTeam.run;                  *)
(*   - synthesize with its ordered fallback models;                        *)
(*   - the research graph: supervisor_node and the edges of the workflow;  *)
(*   - RetryMiddleware, TokenTrackingMiddleware and RAGTool;               *)
(*   - SearchHandler.add_rag_tool, the evidence pool of a run, the RAG     *)
(*     index (ingest_evidence), BioRxivTool.search and create_orchestrator;*)
(*   - SearchHandler.execute with the completion order of its tasks, and   *)
(*     the retry loops of WriterAgent and LongWriterAgent.                 *)
(***************************************************************************)
EXTENDS Integers, Sequences, FiniteSets, TLC

\* ------------------------------------------------------------------------
\* Bounds of the model
\* ------------------------------------------------------------------------
MaxTools == 2
MaxItems == 1

\* ------------------------------------------------------------------------
\* Generic helpers
\* ------------------------------------------------------------------------
None == "None"

\* The sequences over S of length at most n.
SeqsUpTo(S, n) == UNION {[1..k -> S] : k \in 0..n}

Range(s) == {s[i] : i \in DOMAIN s}

IsInjective(s) == \A i, j \in DOMAIN s : s[i] = s[j] => i = j

\* ------------------------------------------------------------------------
\* Evidence, citations and search tools
\* ------------------------------------------------------------------------
\* Search tools by name; the source each one stamps on its citations.
ToolNames == {"pubmed", "europepmc", "web_search"}

SourceOf(tool) ==
    CASE tool = "pubmed"     -> "pubmed"
      [] tool = "europepmc"  -> "europepmc"
      [] tool = "web_search" -> "web"
      [] OTHER               -> "rag"

\* Citation URLs a tool can return: a PubMed page, a DOI and a page with no
\* recognizable identifier.
URLs == {"pubmed.ncbi.nlm.nih.gov/1", "doi.org/10.1/ab", "example.org/x"}

\* The sources a citation can name, and every URL of the model: also the
\* DOI in another spelling and a trial page.
SourceNames == {"pubmed", "clinicaltrials", "europepmc", "biorxiv", "web", "rag"}
AllURLs == URLs \cup {"doi.org/10.1/AB", "clinicaltrials.gov/study/NCT01"}

Evidence(src, url) == [source |-> src, url |-> url]

\* The result lists tool.search can return.
ItemLists(tool) == SeqsUpTo({Evidence(SourceOf(tool), u) : u \in URLs}, MaxItems)

\* ------------------------------------------------------------------------
\* State
\* ------------------------------------------------------------------------
VARIABLES
    sh_tools,          \* SearchHandler.tools (names, in registration order)
    sh_timeout,        \* SearchHandler.timeout
    sh_auto_ingest,    \* SearchHandler.auto_ingest_to_rag
    sh_rag_service,    \* SearchHandler._rag_service (None or the service)
    sh_pc,             \* position of execute: idle, gather, returned, raised
    sh_outcomes,       \* per task: what tool.search did in this call (Pending before)
    sh_results,        \* per task: Pending or the value asyncio.gather stores
    sh_search_result,  \* the SearchResult execute returned (None before)
    rag_ingested       \* some document was inserted into the RAG index

sh_vars == <<sh_tools, sh_timeout, sh_auto_ingest, sh_rag_service, sh_pc,
             sh_outcomes, sh_results, sh_search_result, rag_ingested>>

VARIABLES
    dd_pc,      \* input, once, twice
    dd_in,      \* the evidence list L
    dd_once,    \* dedup(L)
    dd_twice    \* dedup(dedup(L))

dd_vars == <<dd_pc, dd_in, dd_once, dd_twice>>

VARIABLES
    it_state,           \* Started, Searching, Judging, Synthesizing, Complete, Error
    it_iteration,       \* the iteration counter
    it_max_iterations,  \* the configured cap
    it_pool,            \* size of the accumulated evidence pool
    it_sufficient_seen, \* some judge verdict of this run was sufficient
    it_searches,        \* Search Handler calls made
    it_judges           \* Judge Handler calls made

it_vars == <<it_state, it_iteration, it_max_iterations, it_pool, it_sufficient_seen,
             it_searches, it_judges>>

VARIABLES
    jh_pc,        \* idle, done
    jh_evidence,  \* the evidence given to assess
    jh_outcome,   \* what the retryable call did
    jh_result     \* what assess returned or raised

jh_vars == <<jh_pc, jh_evidence, jh_outcome, jh_result>>

VARIABLES
    rt_name,            \* ResearchTeam.name
    rt_agents,          \* ResearchTeam.agents (names, in list order)
    rt_has_judge,       \* ResearchTeam.judge is not None
    rt_max_iterations,  \* ResearchTeam.max_iterations
    rt_pc,              \* idle, agent, judge, returned, raised
    rt_i,               \* loop index i of run
    rt_a,               \* index of the agent to run next
    rt_context,         \* the conversation
    rt_return,          \* what run returned
    rt_agent_runs,      \* agent.run calls of this run, per agent
    rt_judge_runs,      \* judge.run calls of this run
    rt_verdicts,        \* the values of `verdict` in this run, in order
    rt_calls            \* the run calls made: who, in which round, with which messages

rt_vars == <<rt_name, rt_agents, rt_has_judge, rt_max_iterations, rt_pc, rt_i, rt_a,
             rt_context, rt_return, rt_agent_runs, rt_judge_runs, rt_verdicts,
             rt_calls>>

VARIABLES
    ho_max_rounds,      \* self._max_rounds
    ho_pc,              \* position of the generator
    ho_events,          \* the events the consumer has received
    ho_iteration,       \* the local variable iteration
    ho_search_result,   \* search_result
    ho_analysis_result, \* analysis_result
    ho_failure,         \* the collaborator whose exception ended the run
    ho_calls,           \* the collaborators run so far and the results handed to each
    ho_report           \* what report_agent.run did (None before)

ho_vars == <<ho_max_rounds, ho_pc, ho_events, ho_iteration, ho_search_result,
             ho_analysis_result, ho_failure,
             ho_calls, ho_report>>

VARIABLES
    sy_models,     \* the models synthesize will try, in order
    sy_pc,         \* idle, trying, returned, raised
    sy_next,       \* index of the model to call next
    sy_calls,      \* the models called so far, in call order
    sy_replies,    \* what each of those calls did
    sy_attempted,  \* attempted_models collected so far
    sy_errors,     \* errors collected so far
    sy_result      \* the text returned or the SynthesisError raised

sy_vars == <<sy_models, sy_pc, sy_next, sy_calls, sy_replies, sy_attempted, sy_errors,
             sy_result>>

VARIABLES
    sg_has_llm,          \* create_research_graph was given an LLM
    sg_iteration_count,  \* state["iteration_count"]
    sg_max_iterations,   \* state["max_iterations"]
    sg_next_step,        \* state["next_step"]
    sg_hypotheses,       \* len(state["hypotheses"])
    sg_conflicts,        \* number of open conflicts in state["conflicts"]
    sg_at,               \* the node to execute next, or END
    sg_events,           \* the stream: one event per executed node
    sg_llm_calls,        \* calls of the supervisor's chain made so far
    sg_initial_count     \* iteration_count of the initial state given to astream

sg_vars == <<sg_has_llm, sg_iteration_count, sg_max_iterations, sg_next_step,
             sg_hypotheses, sg_conflicts, sg_at, sg_events, sg_llm_calls,
             sg_initial_count>>

VARIABLES
    rm_max_attempts,  \* RetryMiddleware.max_attempts
    rm_pc,            \* idle, calling, returned, raised
    rm_attempt,       \* the loop variable attempt
    rm_outcomes,      \* what each call of next did, in call order
    rm_sleeps,        \* the attempts after which process slept
    rm_last_error,    \* last_error: <<>> or <<the error, the call that raised it>>
    rm_raised         \* what process raised: <<>> or <<the error, the call that raised it>>

rm_vars == <<rm_max_attempts, rm_pc, rm_attempt, rm_outcomes, rm_sleeps, rm_last_error,
             rm_raised>>

VARIABLES
    tt_total_input_tokens,   \* TokenTrackingMiddleware.total_input_tokens
    tt_total_output_tokens,  \* TokenTrackingMiddleware.total_output_tokens
    tt_request_count,        \* TokenTrackingMiddleware.request_count
    tt_in_flight,            \* process calls waiting in `await next(context)`
    tt_done,                 \* what next did in the calls that have ended, in that order
    tt_entry,                \* per waiting call: the counters when process was entered
    tt_peak                  \* the largest number of calls that were waiting at once

tt_vars == <<tt_total_input_tokens, tt_total_output_tokens, tt_request_count, tt_in_flight,
             tt_done, tt_entry, tt_peak>>

VARIABLES
    rg_rag_service,  \* RAGTool._rag_service (None or the service)
    rg_pc,           \* idle, returned, raised
    rg_init,         \* what get_rag_service did in the last search (None: not called)
    rg_retrieved,    \* what rag_service.retrieve did in the last search
    rg_result        \* the list the last search returned, or the exception it raised

rg_vars == <<rg_rag_service, rg_pc, rg_init, rg_retrieved, rg_result>>

VARIABLES
    ar_rag_env,       \* how get_rag_service ends in this environment
    ar_tool_service,  \* RAGTool._rag_service of the tool add_rag_tool created
    ar_queried        \* the names of the tools whose search execute has called

ar_vars == <<ar_rag_env, ar_tool_service, ar_queried>>

VARIABLES
    ep_pc,        \* idle, added
    ep_evidence,  \* MagenticState.evidence: the pool of the run
    ep_prev,      \* the pool before the last add_evidence call
    ep_arg,       \* the list given to the last add_evidence call
    ep_count,     \* what the last add_evidence call returned
    ep_calls      \* add_evidence calls made since the run started

ep_vars == <<ep_pc, ep_evidence, ep_prev, ep_arg, ep_count, ep_calls>>

VARIABLES
    ix_nodes,    \* the nodes of the vector index, in insertion order
    ix_calls,    \* ingest_evidence calls made so far
    ix_raised    \* the last ingest_evidence call raised

ix_vars == <<ix_nodes, ix_calls, ix_raised>>

VARIABLES
    bx_pc,        \* idle, calling, returned, raised
    bx_attempt,   \* the attempt of the retry decorator that is running
    bx_requests,  \* what the request of each attempt did, in order
    bx_result     \* what search returned or raised

bx_vars == <<bx_pc, bx_attempt, bx_requests, bx_result>>

VARIABLES
    co_mode,            \* the argument mode (None when not given)
    co_api_key,         \* the argument api_key
    co_has_openai_key,  \* settings.has_openai_key
    co_handlers,        \* search_handler and judge_handler are both given
    co_importable,      \* the classes of the optional orchestrators that can be imported
    co_pc,              \* called, returned, raised
    co_effective_mode,  \* effective_mode (None before)
    co_created          \* the class of the orchestrator returned, or the exception raised

co_vars == <<co_mode, co_api_key, co_has_openai_key, co_handlers, co_importable, co_pc,
             co_effective_mode, co_created>>

VARIABLES
    sc_order           \* the tasks of the observed execute call in the order they ended

sc_vars == <<sc_order>>

VARIABLES
    wr_agent,          \* the agent called: WriterAgent or LongWriterAgent
    wr_inputs,         \* the arguments of the call after input validation
    wr_pc,             \* idle, running (in await self.agent.run), returned, raised
    wr_attempt,        \* the loop variable attempt
    wr_runs,           \* what self.agent.run did in this call, run by run
    wr_last_exception, \* last_exception (<<>> is None)
    wr_result          \* what the call returned (None before)

wr_vars == <<wr_agent, wr_inputs, wr_pc, wr_attempt, wr_runs, wr_last_exception, wr_result>>

rt_config == <<rt_name, rt_agents, rt_has_judge, rt_max_iterations>>

vars == <<sh_vars, dd_vars, it_vars, jh_vars, rt_vars, ho_vars, sy_vars, sg_vars,
          rm_vars, tt_vars, rg_vars, ar_vars, ep_vars, ix_vars, bx_vars, co_vars,
          sc_vars, wr_vars>>

\* What the steps of one component leave alone: the other components.
FrameSearch == UNCHANGED <<dd_vars, it_vars, jh_vars, rt_vars, ho_vars, sy_vars,
    sg_vars, rm_vars, tt_vars, rg_vars, ar_vars, ep_vars, ix_vars, bx_vars, co_vars,
    sc_vars, wr_vars>>
FrameDedup == UNCHANGED <<sh_vars, it_vars, jh_vars, rt_vars, ho_vars, sy_vars,
    sg_vars, rm_vars, tt_vars, rg_vars, ar_vars, ep_vars, ix_vars, bx_vars, co_vars,
    sc_vars, wr_vars>>
FrameLoop == UNCHANGED <<sh_vars, dd_vars, jh_vars, rt_vars, ho_vars, sy_vars, sg_vars,
    rm_vars, tt_vars, rg_vars, ar_vars, ep_vars, ix_vars, bx_vars, co_vars, sc_vars,
    wr_vars>>
FrameJudge == UNCHANGED <<sh_vars, dd_vars, it_vars, rt_vars, ho_vars, sy_vars,
    sg_vars, rm_vars, tt_vars, rg_vars, ar_vars, ep_vars, ix_vars, bx_vars, co_vars,
    sc_vars, wr_vars>>
FrameHier == UNCHANGED <<sh_vars, dd_vars, it_vars, jh_vars, sy_vars, sg_vars, rm_vars,
    tt_vars, rg_vars, ar_vars, ep_vars, ix_vars, bx_vars, co_vars, sc_vars, wr_vars>>
FrameSynth == UNCHANGED <<sh_vars, dd_vars, it_vars, jh_vars, rt_vars, ho_vars,
    sg_vars, rm_vars, tt_vars, rg_vars, ar_vars, ep_vars, ix_vars, bx_vars, co_vars,
    sc_vars, wr_vars>>
FrameTeam == UNCHANGED <<sh_vars, dd_vars, it_vars, jh_vars, ho_vars, sy_vars, sg_vars,
    rm_vars, tt_vars, rg_vars, ar_vars, ep_vars, ix_vars, bx_vars, co_vars, sc_vars,
    wr_vars>>
FrameGraph == UNCHANGED <<sh_vars, dd_vars, it_vars, jh_vars, rt_vars, ho_vars,
    sy_vars, rm_vars, tt_vars, rg_vars, ar_vars, ep_vars, ix_vars, bx_vars, co_vars,
    sc_vars, wr_vars>>
FrameRetry == UNCHANGED <<sh_vars, dd_vars, it_vars, jh_vars, rt_vars, ho_vars,
    sy_vars, sg_vars, tt_vars, rg_vars, ar_vars, ep_vars, ix_vars, bx_vars, co_vars,
    sc_vars, wr_vars>>
FrameToken == UNCHANGED <<sh_vars, dd_vars, it_vars, jh_vars, rt_vars, ho_vars,
    sy_vars, sg_vars, rm_vars, rg_vars, ar_vars, ep_vars, ix_vars, bx_vars, co_vars,
    sc_vars, wr_vars>>
FrameRagTool == UNCHANGED <<sh_vars, dd_vars, it_vars, jh_vars, rt_vars, ho_vars,
    sy_vars, sg_vars, rm_vars, tt_vars, ar_vars, ep_vars, ix_vars, bx_vars, co_vars,
    sc_vars, wr_vars>>
FrameRagHandler == UNCHANGED <<dd_vars, it_vars, jh_vars, rt_vars, ho_vars, sy_vars,
    sg_vars, rm_vars, tt_vars, rg_vars, ep_vars, ix_vars, bx_vars, co_vars, sc_vars,
    wr_vars>>
FramePool == UNCHANGED <<sh_vars, dd_vars, it_vars, jh_vars, rt_vars, ho_vars, sy_vars,
    sg_vars, rm_vars, tt_vars, rg_vars, ar_vars, ix_vars, bx_vars, co_vars, sc_vars,
    wr_vars>>
FrameRagIndex == UNCHANGED <<sh_vars, dd_vars, it_vars, jh_vars, rt_vars, ho_vars,
    sy_vars, sg_vars, rm_vars, tt_vars, rg_vars, ar_vars, ep_vars, bx_vars, co_vars,
    sc_vars, wr_vars>>
FrameBioRxiv == UNCHANGED <<sh_vars, dd_vars, it_vars, jh_vars, rt_vars, ho_vars,
    sy_vars, sg_vars, rm_vars, tt_vars, rg_vars, ar_vars, ep_vars, ix_vars, co_vars,
    sc_vars, wr_vars>>
FrameFactory == UNCHANGED <<sh_vars, dd_vars, it_vars, jh_vars, rt_vars, ho_vars,
    sy_vars, sg_vars, rm_vars, tt_vars, rg_vars, ar_vars, ep_vars, ix_vars, bx_vars,
    sc_vars, wr_vars>>
FrameSchedule == UNCHANGED <<dd_vars, it_vars, jh_vars, rt_vars, ho_vars, sy_vars,
    sg_vars, rm_vars, tt_vars, rg_vars, ar_vars, ep_vars, ix_vars, bx_vars, co_vars,
    wr_vars>>
FrameWriter == UNCHANGED <<sh_vars, dd_vars, it_vars, jh_vars, rt_vars, ho_vars,
    sy_vars, sg_vars, rm_vars, tt_vars, rg_vars, ar_vars, ep_vars, ix_vars, bx_vars,
    co_vars, sc_vars>>

\* ------------------------------------------------------------------------
\* SearchHandler (src/tools/search_handler.py)
\* ------------------------------------------------------------------------
DefaultTimeout == 30

Pending == [kind |-> "pending"]

\* What tool.search(query, max_results) can do inside asyncio.wait_for.
SearchOutcomes(tool) ==
    {[kind |-> "ok", items |-> l] : l \in ItemLists(tool)}
    \cup {[kind |-> k, items |-> <<>>] : k \in {"SearchError", "Exception", "TimeoutError", "hang"}}

\* str() of the exception a task ends with.
ToolMessage(tool) == [what |-> "tool_error", name |-> tool, after |-> 0]
TimedOutMessage(tool, timeout) == [what |-> "timed_out", name |-> tool, after |-> timeout]

\* A variant that lets wait_for's TimeoutError through as it is.
_search_with_timeout_unwrapped(tool, outcome, timeout) ==
    IF outcome.kind = "ok"
    THEN [kind |-> "ok", items |-> outcome.items, type |-> None, msg |-> None]
    ELSE [kind |-> "exc", items |-> <<>>, type |-> outcome.kind, msg |-> ToolMessage(tool)]

\* _search_with_timeout: the value asyncio.gather(return_exceptions=True)
\* stores for the task.  A search that does not resolve in time makes
\* wait_for raise TimeoutError, which is re-raised as SearchError.
_search_with_timeout(tool, outcome, timeout) ==
    CASE outcome.kind = "ok" ->
            [kind |-> "ok", items |-> outcome.items, type |-> None, msg |-> None]
      [] outcome.kind \in {"TimeoutError", "hang"} ->
            [kind |-> "exc", items |-> <<>>, type |-> "SearchError",
             msg |-> TimedOutMessage(tool, timeout)]
      [] OTHER ->
            [kind |-> "exc", items |-> <<>>, type |-> outcome.kind,
             msg |-> ToolMessage(tool)]

\* A variant that lists a failed tool among the sources.
ProcessOneLeaky(acc, tool, result) ==
    IF result.kind = "exc"
    THEN [acc EXCEPT !.sources_searched = Append(@, tool)]
    ELSE [acc EXCEPT !.all_evidence = @ \o result.items,
                     !.sources_searched = Append(@, tool)]

\* Body of the loop over zip(self.tools, results): an exception becomes an
\* errors entry "<tool.name>: <message>", a list extends the evidence and
\* lists the tool in sources_searched.
ProcessOne(acc, tool, result) ==
    IF result.kind = "exc"
    THEN [acc EXCEPT !.errors = Append(@, [tool |-> tool, msg |-> result.msg])]
    ELSE [acc EXCEPT !.all_evidence = @ \o result.items,
                     !.sources_searched = Append(@, tool)]

\* The whole loop, in registration order.
RECURSIVE ProcessResults(_, _, _)
ProcessResults(tools, results, n) ==
    IF n = 0
    THEN [all_evidence |-> <<>>, sources_searched |-> <<>>, errors |-> <<>>]
    ELSE ProcessOne(ProcessResults(tools, results, n - 1), tools[n], results[n])

\* A variant that counts the tasks instead of the evidence.
SearchResultCountsTasks(acc) ==
    [evidence |-> acc.all_evidence,
     sources_searched |-> acc.sources_searched,
     total_found |-> Len(acc.sources_searched) + Len(acc.errors),
     errors |-> acc.errors]

\* SearchResult(query, evidence, sources_searched, total_found, errors)
SearchResult(acc) ==
    [evidence |-> acc.all_evidence,
     sources_searched |-> acc.sources_searched,
     total_found |-> Len(acc.all_evidence),
     errors |-> acc.errors]

\* How get_rag_service() can end when the service is first created.
RagInitOutcomes == {"ok", "ConfigurationError", "ImportError", "RuntimeError"}
\* How rag_service.ingest_evidence() can end.
IngestOutcomes == {"ok", "raises", "raises_midway"}

\* _get_rag_service: the cached service, or a new one; only
\* ConfigurationError and ImportError are caught.
_get_rag_service(service, auto_ingest, init) ==
    IF service = None /\ auto_ingest
    THEN CASE init = "ok" -> [service |-> "svc", ret |-> "svc", raised |-> None]
           [] init \in {"ConfigurationError", "ImportError"} ->
                 [service |-> None, ret |-> None, raised |-> None]
           [] OTHER -> [service |-> None, ret |-> None, raised |-> init]
    ELSE [service |-> service, ret |-> service, raised |-> None]

\* Evidence that is ingested: everything not sourced from the RAG itself.
evidence_to_ingest(all_evidence) ==
    SelectSeq(all_evidence, LAMBDA e : e.source # "rag")

SearchInit ==
    /\ sh_tools \in {t \in SeqsUpTo(ToolNames, MaxTools) : Len(t) >= 1 /\ IsInjective(t)}
    /\ sh_timeout = DefaultTimeout
    /\ sh_auto_ingest \in BOOLEAN
    /\ sh_rag_service = None
    /\ sh_pc = "idle"
    /\ sh_outcomes = <<>>
    /\ sh_results = <<>>
    /\ sh_search_result = None
    /\ rag_ingested = FALSE

\* results = await asyncio.gather(*tasks, return_exceptions=True): the
\* list holds the result of each task at the position of that task,
\* whatever the order in which the tasks ended.  The variant lists the
\* results in the order the tasks ended.
gather_as_completed(results, order) == [k \in DOMAIN results |-> results[order[k]]]
gather(results, order) == results

\* execute is called: one task per registered tool is created and awaited.
ExecuteStart ==
    /\ sh_pc \in {"idle", "returned", "raised"}
    /\ sh_pc' = "gather"
    /\ sh_outcomes' = [i \in 1..Len(sh_tools) |-> Pending]
    /\ sh_results' = [i \in 1..Len(sh_tools) |-> Pending]
    /\ sh_search_result' = None
    /\ UNCHANGED <<sh_tools, sh_timeout, sh_auto_ingest, sh_rag_service, rag_ingested>>

\* One of the concurrent tasks ends, in any order.
SearchComplete(i, outcome) ==
    /\ sh_pc = "gather"
    /\ i \in DOMAIN sh_results
    /\ sh_results[i] = Pending
    /\ sh_outcomes' = [sh_outcomes EXCEPT ![i] = outcome]
    /\ sh_results' = [sh_results EXCEPT
                        ![i] = _search_with_timeout(sh_tools[i], outcome, sh_timeout)]
    /\ UNCHANGED <<sh_tools, sh_timeout, sh_auto_ingest, sh_rag_service, sh_pc,
                   sh_search_result, rag_ingested>>

\* gather has every result: the rest of execute runs to its end.  An
\* ingestion that raises may have inserted some of the documents before.
ExecuteFinish(init, ingest) ==
    /\ sh_pc = "gather"
    /\ \A i \in DOMAIN sh_results : sh_results[i] # Pending
    /\ LET acc  == ProcessResults(sh_tools, gather(sh_results, sc_order), Len(sh_tools))
           got  == _get_rag_service(sh_rag_service, sh_auto_ingest, init)
           todo == evidence_to_ingest(acc.all_evidence)
       IN  IF sh_auto_ingest /\ acc.all_evidence # <<>>
           THEN /\ sh_rag_service' = got.service
                /\ IF got.raised # None
                   THEN /\ sh_pc' = "raised"
                        /\ sh_search_result' = None
                        /\ UNCHANGED rag_ingested
                   ELSE /\ sh_pc' = "returned"
                        /\ sh_search_result' = SearchResult(acc)
                        /\ IF got.ret # None /\ todo # <<>>
                           THEN CASE ingest = "ok" -> rag_ingested' = TRUE
                                  [] ingest = "raises_midway" /\ Len(todo) > 1 ->
                                        rag_ingested' = TRUE
                                  [] OTHER -> UNCHANGED rag_ingested
                           ELSE UNCHANGED rag_ingested
           ELSE /\ sh_pc' = "returned"
                /\ sh_search_result' = SearchResult(acc)
                /\ UNCHANGED <<sh_rag_service, rag_ingested>>
    /\ UNCHANGED <<sh_tools, sh_timeout, sh_auto_ingest, sh_outcomes, sh_results>>

SearchNext ==
    \/ ExecuteStart /\ FrameSearch
    \/ \E i \in DOMAIN sh_tools : \E o \in SearchOutcomes(sh_tools[i]) :
          SearchComplete(i, o) /\ FrameSearch
    \/ \E init \in RagInitOutcomes, ingest \in IngestOutcomes :
          ExecuteFinish(init, ingest) /\ FrameSearch

\* ------------------------------------------------------------------------
\* Deduplication (spec 4.1: key extractor and source-priority tie-break)
\* ------------------------------------------------------------------------
MaxDedupLen == 3

\* extract_paper_id: PMID, else DOI (lower-cased), else NCT id, else None.
extract_paper_id(e) ==
    CASE e.url = "pubmed.ncbi.nlm.nih.gov/1"      -> "PMID:1"
      [] e.url = "doi.org/10.1/ab"                -> "DOI:10.1/ab"
      [] e.url = "doi.org/10.1/AB"                -> "DOI:10.1/ab"
      [] e.url = "clinicaltrials.gov/study/NCT01" -> "NCT:NCT01"
      [] OTHER                                    -> None

\* pubmed > clinicaltrials > europepmc > biorxiv > web > rag (lower is better).
source_priority(src) ==
    CASE src = "pubmed"         -> 0
      [] src = "clinicaltrials" -> 1
      [] src = "europepmc"      -> 2
      [] src = "biorxiv"        -> 3
      [] src = "web"            -> 4
      [] OTHER                  -> 5

\* Index in `unique` of the item with key k, or 0.
IndexOfKey(unique, k) ==
    IF \E j \in DOMAIN unique : extract_paper_id(unique[j]) = k
    THEN CHOOSE j \in DOMAIN unique : extract_paper_id(unique[j]) = k
    ELSE 0

\* One item meets the items kept so far: an item without key is kept; a
\* first key is kept; a duplicate replaces the kept one only if its source
\* has strictly higher priority.
DedupStep(unique, e) ==
    LET k == extract_paper_id(e)
        j == IndexOfKey(unique, k)
    IN  IF k = None \/ j = 0 THEN Append(unique, e)
        ELSE IF source_priority(e.source) < source_priority(unique[j].source)
             THEN [unique EXCEPT ![j] = e]
             ELSE unique

RECURSIVE deduplicate_upto(_, _)
deduplicate_upto(L, n) ==
    IF n = 0 THEN <<>> ELSE DedupStep(deduplicate_upto(L, n - 1), L[n])

\* A variant whose loop stops one item short.
deduplicate_skip_last(L) == deduplicate_upto(L, IF Len(L) = 0 THEN 0 ELSE Len(L) - 1)

deduplicate(L) == deduplicate_upto(L, Len(L))

\* The evidence lists deduplication is applied to.
DedupInputs(n) == SeqsUpTo({Evidence(src, u) : src \in SourceNames, u \in AllURLs}, n)

DedupInit ==
    /\ dd_pc = "input"
    /\ dd_in \in DedupInputs(MaxDedupLen)
    /\ dd_once = <<>>
    /\ dd_twice = <<>>

DedupIdle ==
    /\ dd_pc = "input"
    /\ dd_in = <<>>
    /\ dd_once = <<>>
    /\ dd_twice = <<>>

DedupOnce ==
    /\ dd_pc = "input"
    /\ dd_pc' = "once"
    /\ dd_once' = deduplicate(dd_in)
    /\ UNCHANGED <<dd_in, dd_twice>>

DedupTwice ==
    /\ dd_pc = "once"
    /\ dd_pc' = "twice"
    /\ dd_twice' = deduplicate(dd_once)
    /\ UNCHANGED <<dd_in, dd_once>>

DedupNext ==
    \/ DedupOnce /\ FrameDedup
    \/ DedupTwice /\ FrameDedup

\* ------------------------------------------------------------------------
\* Iterative orchestrator (spec 4.4: the search-judge convergence loop)
\* ------------------------------------------------------------------------
MaxIterationsCap == 3
MaxNewEvidence == 1

\* A variant whose cap is one iteration late.
AfterJudgingLate(sufficient, iteration, max_iterations) ==
    IF sufficient \/ iteration > max_iterations THEN "Synthesizing" ELSE "Searching"

\* Judging -> Synthesizing when the verdict is sufficient or the cap is
\* reached; Judging -> Searching otherwise.
AfterJudging(sufficient, iteration, max_iterations) ==
    IF sufficient \/ iteration >= max_iterations THEN "Synthesizing" ELSE "Searching"

LoopInit ==
    /\ it_state = "Started"
    /\ it_iteration = 0
    /\ it_max_iterations \in 1..MaxIterationsCap
    /\ it_pool = 0
    /\ it_sufficient_seen = FALSE
    /\ it_searches = 0
    /\ it_judges = 0

LoopIdle ==
    /\ it_state = "off"
    /\ it_iteration = 0
    /\ it_max_iterations = 1
    /\ it_pool = 0
    /\ it_sufficient_seen = FALSE
    /\ it_searches = 0
    /\ it_judges = 0

\* Started -> Searching: always, on run(query).
LoopRun ==
    /\ it_state = "Started"
    /\ it_state' = "Searching"
    /\ UNCHANGED <<it_iteration, it_max_iterations, it_pool, it_sufficient_seen,
                   it_searches, it_judges>>

\* Searching -> Judging: after the Search Handler returns, with or without
\* new items; the pool only grows.
LoopSearch(new) ==
    /\ it_state = "Searching"
    /\ it_state' = "Judging"
    /\ it_pool' = it_pool + new
    /\ it_searches' = it_searches + 1
    /\ UNCHANGED <<it_iteration, it_max_iterations, it_sufficient_seen, it_judges>>

\* Judging -> Searching | Synthesizing on the verdict of one judge call.
LoopJudge(sufficient) ==
    /\ it_state = "Judging"
    /\ it_judges' = it_judges + 1
    /\ it_sufficient_seen' = (it_sufficient_seen \/ sufficient)
    /\ it_state' = AfterJudging(sufficient, it_iteration, it_max_iterations)
    /\ it_iteration' = IF it_state' = "Searching" THEN it_iteration + 1 ELSE it_iteration
    /\ UNCHANGED <<it_max_iterations, it_pool, it_searches>>

\* Synthesizing -> Complete, or Error when synthesis exhausts its models.
LoopSynthesize(ok) ==
    /\ it_state = "Synthesizing"
    /\ it_state' = IF ok THEN "Complete" ELSE "Error"
    /\ UNCHANGED <<it_iteration, it_max_iterations, it_pool, it_sufficient_seen,
                   it_searches, it_judges>>

\* Any state -> Error: an unrecovered exception or the overall run timeout.
LoopAbort ==
    /\ it_state \in {"Started", "Searching", "Judging", "Synthesizing"}
    /\ it_state' = "Error"
    /\ UNCHANGED <<it_iteration, it_max_iterations, it_pool, it_sufficient_seen,
                   it_searches, it_judges>>

LoopNext ==
    \/ LoopRun /\ FrameLoop
    \/ \E new \in 0..MaxNewEvidence : LoopSearch(new) /\ FrameLoop
    \/ \E sufficient \in BOOLEAN : LoopJudge(sufficient) /\ FrameLoop
    \/ \E ok \in BOOLEAN : LoopSynthesize(ok) /\ FrameLoop
    \/ LoopAbort /\ FrameLoop

\* ------------------------------------------------------------------------
\* Judge handler (spec 4.3: assess and its quota fallback)
\* ------------------------------------------------------------------------
MaxJudgeEvidence == 3

Titles == {"Important Drug A Findings", "Clinical Trial of Drug B", "Review C"}

\* What the retryable judge call can do: return an assessment, or raise.
JudgeCallOutcomes ==
    {"verdict_sufficient", "verdict_insufficient",
     "402 Payment Required", "quota exceeded", "timeout", "connection error"}

is_quota_error(outcome) == outcome \in {"402 Payment Required", "quota exceeded"}

QuotaMarker == "Free Tier Quota Exceeded"
ExtractionUnavailable == <<"Upgrade to paid API for drug extraction.">>

\* A variant that stops after the first title.
extract_titles_first_only(evidence) ==
    [j \in 1..(IF Len(evidence) > 1 THEN 1 ELSE Len(evidence)) |-> evidence[j].title]

\* The deterministic fallback: one finding per evidence item, its title.
extract_titles(evidence) == [j \in 1..Len(evidence) |-> evidence[j].title]

\* assess: the LLM assessment, the quota fallback, or the error signalled
\* to the orchestrator that owns the retry policy.
assess(evidence, outcome) ==
    CASE outcome = "verdict_sufficient" ->
            [raised |-> None, sufficient |-> TRUE, reasoning |-> "llm",
             key_findings |-> <<>>, drug_candidates |-> <<>>]
      [] outcome = "verdict_insufficient" ->
            [raised |-> None, sufficient |-> FALSE, reasoning |-> "llm",
             key_findings |-> <<>>, drug_candidates |-> <<>>]
      [] is_quota_error(outcome) ->
            [raised |-> None, sufficient |-> TRUE, reasoning |-> QuotaMarker,
             key_findings |-> extract_titles(evidence),
             drug_candidates |-> ExtractionUnavailable]
      [] OTHER ->
            [raised |-> outcome, sufficient |-> FALSE, reasoning |-> "",
             key_findings |-> <<>>, drug_candidates |-> <<>>]

\* The evidence lists assess is given.
JudgeInputs(n) ==
    SeqsUpTo({[source |-> "pubmed", url |-> "pubmed.ncbi.nlm.nih.gov/1", title |-> t] :
                 t \in Titles}, n)

JudgeInit ==
    /\ jh_pc = "idle"
    /\ jh_evidence \in JudgeInputs(MaxJudgeEvidence)
    /\ jh_outcome = None
    /\ jh_result = None

JudgeIdle ==
    /\ jh_pc = "off"
    /\ jh_evidence = <<>>
    /\ jh_outcome = None
    /\ jh_result = None

Assess(outcome) ==
    /\ jh_pc = "idle"
    /\ jh_pc' = "done"
    /\ jh_outcome' = outcome
    /\ jh_result' = assess(jh_evidence, outcome)
    /\ UNCHANGED jh_evidence

JudgeNext == \E outcome \in JudgeCallOutcomes : Assess(outcome) /\ FrameJudge

\* ------------------------------------------------------------------------
\* ResearchTeam (src/middleware/sub_iteration.py)
\* ------------------------------------------------------------------------
\* Texts as character sequences, for str.upper() and the `in` test.
Chars(text) ==
    CASE text = "SUFFICIENT"     -> <<"S","U","F","F","I","C","I","E","N","T">>
      [] text = "Sufficient"     -> <<"S","u","f","f","i","c","i","e","n","t">>
      [] text = "CONTINUE"       -> <<"C","O","N","T","I","N","U","E">>
      [] text = "INSUFFICIENT"   -> <<"I","N","S","U","F","F","I","C","I","E","N","T">>
      [] text = "NOT SUFFICIENT" -> <<"N","O","T"," ","S","U","F","F","I","C","I","E","N","T">>
      [] OTHER                   -> <<>>

UpperChar(c) ==
    CASE c = "u" -> "U" [] c = "f" -> "F" [] c = "i" -> "I" [] c = "c" -> "C"
      [] c = "e" -> "E" [] c = "n" -> "N" [] c = "t" -> "T" [] OTHER -> c

Upper(cs) == [j \in DOMAIN cs |-> UpperChar(cs[j])]

Contains(hay, needle) ==
    \E k \in 0..(Len(hay) - Len(needle)) :
        \A j \in 1..Len(needle) : hay[k + j] = needle[j]

\* "SUFFICIENT" in verdict.upper()
VerdictEndsLoopExact(verdict) == verdict = "SUFFICIENT"
VerdictEndsLoop(verdict) == Contains(Upper(Chars(verdict)), Chars("SUFFICIENT"))

\* A judge reply, and what agent.run / judge.run can do.
VerdictTexts == {"SUFFICIENT", "Sufficient", "CONTINUE", "INSUFFICIENT", "NOT SUFFICIENT"}
AgentOutcomes == {"reply", "empty", "raise"}
JudgeOutcomes == VerdictTexts \cup {"empty", "raise"}

Message(role, text) == [role |-> role, text |-> text]

\* _format_result: header with team name and status, then the text of
\* every assistant message.
_format_result(name, messages, status) ==
    [team |-> name, status |-> status,
     body |-> [j \in 1..Len(SelectSeq(messages, LAMBDA m : m.role = "assistant")) |->
                 SelectSeq(messages, LAMBDA m : m.role = "assistant")[j].text]]

TeamIdle ==
    /\ rt_name = None
    /\ rt_agents = <<>>
    /\ rt_has_judge = FALSE
    /\ rt_max_iterations = 0
    /\ rt_pc = "idle"
    /\ rt_i = 0
    /\ rt_a = 0
    /\ rt_context = <<>>
    /\ rt_return = None
    /\ rt_agent_runs = <<>>
    /\ rt_judge_runs = 0
    /\ rt_verdicts = <<>>
    /\ rt_calls = <<>>

\* Where run stands when round i is entered with the given context: at its
\* first agent, at the judge, or, the rounds used up, at the final return.
RECURSIVE TeamEnterRound(_, _, _, _, _, _)
TeamEnterRound(name, agents, has_judge, max_iterations, i, context) ==
    IF i >= max_iterations
    THEN [pc |-> "returned", i |-> i, a |-> 0,
          ret |-> _format_result(name, context, "Max iterations reached")]
    ELSE IF Len(agents) > 0 THEN [pc |-> "agent", i |-> i, a |-> 1, ret |-> None]
    ELSE IF has_judge THEN [pc |-> "judge", i |-> i, a |-> 0, ret |-> None]
    ELSE TeamEnterRound(name, agents, has_judge, max_iterations, i + 1, context)

\* One await of run: the collaborator, the round, the messages it was given
\* and the last message of its response (none: <<>>).
TeamCall(who, round, given, reply) ==
    [who |-> who, round |-> round, given |-> given, reply |-> reply]

\* What agent.run(context) and judge.run(judge_context) answer with.
AgentReply(agent, outcome) ==
    IF outcome = "reply" THEN <<Message("assistant", agent)>> ELSE <<>>
JudgeReply(outcome) ==
    IF outcome \in {"raise", "empty"} THEN <<>> ELSE <<Message("assistant", outcome)>>

\* A variant that keeps the reply out of the conversation.
append_reply_dropped(context, reply) == context

\* `if response.messages: context.append(response.messages[-1])`
append_reply(context, reply) == context \o reply

\* judge_context: a copy of the conversation followed by the judge prompt.
judge_context(context) == Append(context, Message("user", "judge_prompt"))

\* run(task) up to its first await.
TeamStart(name, agents, has_judge, max_iterations) ==
    LET context == <<Message("user", "task")>>
        at == TeamEnterRound(name, agents, has_judge, max_iterations, 0, context)
    IN  /\ rt_name' = name
        /\ rt_agents' = agents
        /\ rt_has_judge' = has_judge
        /\ rt_max_iterations' = max_iterations
        /\ rt_context' = context
        /\ rt_pc' = at.pc
        /\ rt_i' = at.i
        /\ rt_a' = at.a
        /\ rt_return' = at.ret
        /\ rt_agent_runs' = [j \in 1..Len(agents) |-> 0]
        /\ rt_judge_runs' = 0
        /\ rt_verdicts' = <<>>
        /\ rt_calls' = <<>>

\* agent.run(context) of the next agent of the round ends.
TeamAgentStep(outcome) ==
    /\ rt_pc = "agent"
    /\ rt_agent_runs' = [rt_agent_runs EXCEPT ![rt_a] = @ + 1]
    /\ rt_calls' = Append(rt_calls, TeamCall(rt_agents[rt_a], rt_i, rt_context,
                                             AgentReply(rt_agents[rt_a], outcome)))
    /\ IF outcome = "raise"
       THEN /\ rt_pc' = "raised"
            /\ UNCHANGED <<rt_i, rt_a, rt_context, rt_return>>
       ELSE LET context == append_reply(rt_context, AgentReply(rt_agents[rt_a], outcome))
                at == TeamEnterRound(rt_name, rt_agents, rt_has_judge, rt_max_iterations,
                                     rt_i + 1, context)
            IN  /\ rt_context' = context
                /\ IF rt_a < Len(rt_agents)
                   THEN /\ rt_a' = rt_a + 1
                        /\ UNCHANGED <<rt_pc, rt_i, rt_return>>
                   ELSE IF rt_has_judge
                        THEN /\ rt_pc' = "judge"
                             /\ UNCHANGED <<rt_i, rt_a, rt_return>>
                        ELSE /\ rt_pc' = at.pc
                             /\ rt_i' = at.i
                             /\ rt_a' = at.a
                             /\ rt_return' = at.ret
    /\ UNCHANGED <<rt_config, rt_judge_runs, rt_verdicts>>

\* judge.run(judge_context) ends: the verdict is the text of its last
\* message ("" without messages), that message is appended to the context
\* (messages[-1] raises IndexError without messages), and a verdict
\* containing SUFFICIENT ends the run.
TeamJudgeStep(outcome) ==
    /\ rt_pc = "judge"
    /\ rt_judge_runs' = rt_judge_runs + 1
    /\ rt_calls' = Append(rt_calls, TeamCall("judge", rt_i, judge_context(rt_context),
                                             JudgeReply(outcome)))
    /\ IF outcome = "raise"
       THEN /\ rt_pc' = "raised"
            /\ UNCHANGED <<rt_i, rt_a, rt_context, rt_return, rt_verdicts>>
       ELSE IF outcome = "empty"
       THEN /\ rt_pc' = "raised"
            /\ rt_verdicts' = Append(rt_verdicts, "")
            /\ UNCHANGED <<rt_i, rt_a, rt_context, rt_return>>
       ELSE LET context == Append(rt_context, Message("assistant", outcome))
                at == TeamEnterRound(rt_name, rt_agents, rt_has_judge, rt_max_iterations,
                                     rt_i + 1, context)
            IN  /\ rt_context' = context
                /\ rt_verdicts' = Append(rt_verdicts, outcome)
                /\ IF VerdictEndsLoop(outcome)
                   THEN /\ rt_pc' = "returned"
                        /\ rt_return' = _format_result(rt_name, context, outcome)
                        /\ UNCHANGED <<rt_i, rt_a>>
                   ELSE /\ rt_pc' = at.pc
                        /\ rt_i' = at.i
                        /\ rt_a' = at.a
                        /\ rt_return' = at.ret
    /\ UNCHANGED <<rt_config, rt_agent_runs>>

\* A team of its own: any number of agents, with or without a judge, any
\* number of rounds, and one run.
MaxAgents == 2
MaxTeamRounds == 2

TeamAgents == <<"SearchAgent", "RetrievalAgent", "CodeExecutorAgent", "ReportAgent">>

TeamInit == TeamIdle

TeamRun(n, has_judge, max_iterations) ==
    /\ rt_pc = "idle"
    /\ TeamStart("SearchTeam", SubSeq(TeamAgents, 1, n), has_judge, max_iterations)

TeamNext ==
    \/ \E n \in 0..MaxAgents, has_judge \in BOOLEAN, max_iterations \in 0..MaxTeamRounds :
          TeamRun(n, has_judge, max_iterations) /\ FrameTeam
    \/ \E outcome \in AgentOutcomes : TeamAgentStep(outcome) /\ FrameTeam
    \/ \E outcome \in JudgeOutcomes : TeamJudgeStep(outcome) /\ FrameTeam

\* ------------------------------------------------------------------------
\* HierarchicalOrchestrator.run (src/orchestrator_hierarchical.py)
\* ------------------------------------------------------------------------
TeamMaxIterations == 3

\* __init__(self, max_rounds: int = 10)
DefaultMaxRounds == 10

\* The max_rounds a caller gives: small values, or none (the default).
MaxRoundsGiven == {2, DefaultMaxRounds}

\* A collaborator (team or agent) is run with a task built from these results.
Call(who, given) == [who |-> who, given |-> given]

AgentEvent(type, iteration, message) ==
    [type |-> type, iteration |-> iteration, message |-> message]

HierInit ==
    /\ ho_max_rounds \in MaxRoundsGiven
    /\ ho_pc = "new"
    /\ ho_events = <<>>
    /\ ho_iteration = 0
    /\ ho_search_result = None
    /\ ho_analysis_result = None
    /\ ho_failure = None
    /\ ho_calls = <<>>
    /\ ho_report = None
    /\ TeamIdle

HoIdle ==
    /\ ho_max_rounds = 0
    /\ ho_pc = "off"
    /\ ho_events = <<>>
    /\ ho_iteration = 0
    /\ ho_search_result = None
    /\ ho_analysis_result = None
    /\ ho_failure = None
    /\ ho_calls = <<>>
    /\ ho_report = None

HierIdle == HoIdle /\ TeamIdle

\* Emit an event and move on; the teams are untouched.
HoYield(from, to, event, iteration) ==
    /\ ho_pc = from
    /\ ho_pc' = to
    /\ ho_events' = Append(ho_events, event)
    /\ ho_iteration' = iteration
    /\ UNCHANGED <<ho_max_rounds, ho_search_result, ho_analysis_result, ho_failure,
                   ho_calls, ho_report, rt_vars>>

\* run(query) is started: the state is reset and "started" is yielded.
HoStart == HoYield("new", "started", AgentEvent("started", 0, "query"), 0)

\* The teams are defined, iteration = 0, and the first "judging" is yielded.
HoDispatchSearch ==
    HoYield("started", "dispatch_search", AgentEvent("judging", 0, "SearchTeam"), 0)

\* await search_team.run(query)
HoRunSearchTeam ==
    /\ ho_pc = "dispatch_search"
    /\ ho_pc' = "search_team"
    /\ TeamStart("SearchTeam", <<"SearchAgent", "RetrievalAgent">>, TRUE, TeamMaxIterations)
    /\ ho_calls' = Append(ho_calls, Call("SearchTeam", <<>>))
    /\ UNCHANGED <<ho_max_rounds, ho_events, ho_iteration, ho_search_result,
                   ho_analysis_result, ho_failure,
                   ho_report>>

\* The search team returned: "search_complete" is yielded.
HoSearchDone ==
    /\ ho_pc = "search_team"
    /\ rt_pc = "returned"
    /\ ho_pc' = "search_complete"
    /\ ho_search_result' = rt_return
    /\ ho_events' = Append(ho_events,
                           AgentEvent("search_complete", ho_iteration + 1, rt_return))
    /\ UNCHANGED <<ho_max_rounds, ho_iteration, ho_analysis_result, ho_failure, ho_calls,
                   ho_report, rt_vars>>

\* iteration += 1 and the second "judging" is yielded.
HoDispatchAnalysis ==
    HoYield("search_complete", "dispatch_analysis",
            AgentEvent("judging", ho_iteration + 1, "AnalysisTeam"), ho_iteration + 1)

\* await analysis_team.run("Analyze these findings: <search_result>")
HoRunAnalysisTeamBlind ==
    /\ ho_pc = "dispatch_analysis"
    /\ ho_pc' = "analysis_team"
    /\ TeamStart("AnalysisTeam", <<"CodeExecutorAgent">>, TRUE, TeamMaxIterations)
    /\ ho_calls' = Append(ho_calls, Call("AnalysisTeam", <<>>))
    /\ UNCHANGED <<ho_max_rounds, ho_events, ho_iteration, ho_search_result,
                   ho_analysis_result, ho_failure,
                   ho_report>>
HoRunAnalysisTeam ==
    /\ ho_pc = "dispatch_analysis"
    /\ ho_pc' = "analysis_team"
    /\ TeamStart("AnalysisTeam", <<"CodeExecutorAgent">>, TRUE, TeamMaxIterations)
    /\ ho_calls' = Append(ho_calls, Call("AnalysisTeam", <<ho_search_result>>))
    /\ UNCHANGED <<ho_max_rounds, ho_events, ho_iteration, ho_search_result,
                   ho_analysis_result, ho_failure,
                   ho_report>>

\* The analysis team returned: "hypothesizing" is yielded.
HoAnalysisDone ==
    /\ ho_pc = "analysis_team"
    /\ rt_pc = "returned"
    /\ ho_pc' = "hypothesizing"
    /\ ho_analysis_result' = rt_return
    /\ ho_events' = Append(ho_events,
                           AgentEvent("hypothesizing", ho_iteration + 1, rt_return))
    /\ UNCHANGED <<ho_max_rounds, ho_iteration, ho_search_result, ho_failure, ho_calls,
                   ho_report, rt_vars>>

\* iteration += 1 and the third "judging" is yielded.
HoDispatchReport ==
    HoYield("hypothesizing", "dispatch_report",
            AgentEvent("judging", ho_iteration + 1, "ReportAgent"), ho_iteration + 1)

\* await report_agent.run(...): "complete" carries the text of its last
\* message, or "No report."; an exception of the agent is not caught.
HoReport(outcome) ==
    /\ ho_pc = "dispatch_report"
    /\ IF outcome = "raise"
       THEN /\ ho_pc' = "escaped"
            /\ ho_failure' = "ReportAgent"
            /\ UNCHANGED ho_events
       ELSE /\ ho_pc' = "complete"
            /\ ho_events' = Append(ho_events,
                  AgentEvent("complete", ho_iteration + 1,
                             IF outcome = "reply" THEN "Final Report" ELSE "No report."))
            /\ UNCHANGED ho_failure
    /\ ho_calls' = Append(ho_calls,
                          Call("ReportAgent", <<ho_search_result, ho_analysis_result>>))
    /\ ho_report' = outcome
    /\ UNCHANGED <<ho_max_rounds, ho_iteration, ho_search_result, ho_analysis_result, rt_vars>>

\* A team run raised: nothing in run catches it, the generator ends with
\* the exception and the consumer's iteration raises.
HoTeamRaised ==
    /\ ho_pc \in {"search_team", "analysis_team"}
    /\ rt_pc = "raised"
    /\ ho_pc' = "escaped"
    /\ ho_failure' = rt_name
    /\ UNCHANGED <<ho_max_rounds, ho_events, ho_iteration, ho_search_result,
                   ho_analysis_result, ho_calls,
                   ho_report, rt_vars>>

\* The generator is resumed after "complete" and ends.
HoFinish ==
    /\ ho_pc = "complete"
    /\ ho_pc' = "done"
    /\ UNCHANGED <<ho_max_rounds, ho_events, ho_iteration, ho_search_result, ho_analysis_result,
                   ho_failure, ho_calls, ho_report, rt_vars>>

HoTeamAgent(outcome) ==
    /\ ho_pc \in {"search_team", "analysis_team"}
    /\ TeamAgentStep(outcome)
    /\ UNCHANGED ho_vars

HoTeamJudge(outcome) ==
    /\ ho_pc \in {"search_team", "analysis_team"}
    /\ TeamJudgeStep(outcome)
    /\ UNCHANGED ho_vars

HierNext ==
    \/ HoStart /\ FrameHier
    \/ HoDispatchSearch /\ FrameHier
    \/ HoRunSearchTeam /\ FrameHier
    \/ \E outcome \in AgentOutcomes : HoTeamAgent(outcome) /\ FrameHier
    \/ \E outcome \in JudgeOutcomes : HoTeamJudge(outcome) /\ FrameHier
    \/ HoSearchDone /\ FrameHier
    \/ HoDispatchAnalysis /\ FrameHier
    \/ HoRunAnalysisTeam /\ FrameHier
    \/ HoAnalysisDone /\ FrameHier
    \/ HoDispatchReport /\ FrameHier
    \/ \E outcome \in AgentOutcomes : HoReport(outcome) /\ FrameHier
    \/ HoTeamRaised /\ FrameHier
    \/ HoFinish /\ FrameHier

\* ------------------------------------------------------------------------
\* HFInferenceJudgeHandler.synthesize (spec 4.3: ordered fallback models,
\* minimum viable length, SynthesisError)
\* ------------------------------------------------------------------------
MaxModels == 3

\* A response shorter than this is rejected.
MinSynthesisLength == 50

\* FALLBACK_MODELS of length k, and the list synthesize tries: the
\* configured model alone, or the fallback list.
FallbackModels(k) == [j \in 1..k |-> <<"fallback", j>>]
CustomModel == <<"custom/model-id", 0>>
ModelsToTryWithFallbacks(model_id, k) ==
    IF model_id # None THEN <<model_id>> \o FallbackModels(k) ELSE FallbackModels(k)
ModelsToTry(model_id, k) == IF model_id # None THEN <<model_id>> ELSE FallbackModels(k)

\* What one chat_completion call can do: raise, or answer a text of some
\* length (the text itself is identified by the model that wrote it).
ReplyLengths == {0, 9, 49, 50, 62}
SynthCallOutcomes == {[kind |-> "raise", len |-> 0]} \cup
                     {[kind |-> "text", len |-> n] : n \in ReplyLengths}

\* Acceptable: a text of at least the minimum length.
AcceptsAnyText(outcome) == outcome.kind = "text"
Accepts(outcome) == outcome.kind = "text" /\ outcome.len >= MinSynthesisLength

SynthErrorOf(model, outcome) ==
    [model |-> model,
     error |-> IF outcome.kind = "raise" THEN "raised" ELSE "response too short"]

SynthesisError(attempted, errors) ==
    [kind |-> "SynthesisError", attempted_models |-> attempted, errors |-> errors]

SynthInit ==
    /\ \E model_id \in {None, CustomModel}, k \in 1..MaxModels :
          sy_models = ModelsToTry(model_id, k)
    /\ sy_pc = "idle"
    /\ sy_next = 0
    /\ sy_calls = <<>>
    /\ sy_replies = <<>>
    /\ sy_attempted = <<>>
    /\ sy_errors = <<>>
    /\ sy_result = None

SynthIdle ==
    /\ sy_models = <<>>
    /\ sy_pc = "off"
    /\ sy_next = 0
    /\ sy_calls = <<>>
    /\ sy_replies = <<>>
    /\ sy_attempted = <<>>
    /\ sy_errors = <<>>
    /\ sy_result = None

\* synthesize(system_prompt, user_prompt) is called.
SynthStart ==
    /\ sy_pc \in {"idle", "returned", "raised"}
    /\ sy_pc' = "trying"
    /\ sy_next' = 1
    /\ sy_calls' = <<>>
    /\ sy_replies' = <<>>
    /\ sy_attempted' = <<>>
    /\ sy_errors' = <<>>
    /\ sy_result' = None
    /\ UNCHANGED sy_models

\* The call of the next model ends: an acceptable text is returned; otherwise
\* the failure is recorded and the next model is tried, or, the list used
\* up, SynthesisError is raised.
SynthTry(outcome) ==
    /\ sy_pc = "trying"
    /\ LET model     == sy_models[sy_next]
           attempted == Append(sy_attempted, model)
           errors    == Append(sy_errors, SynthErrorOf(model, outcome))
       IN  /\ sy_calls' = Append(sy_calls, model)
           /\ sy_replies' = Append(sy_replies, outcome)
           /\ sy_attempted' = attempted
           /\ IF Accepts(outcome)
              THEN /\ sy_pc' = "returned"
                   /\ sy_result' = [kind |-> "text", model |-> model, len |-> outcome.len]
                   /\ UNCHANGED <<sy_errors, sy_next>>
              ELSE /\ sy_errors' = errors
                   /\ IF sy_next < Len(sy_models)
                      THEN /\ sy_next' = sy_next + 1
                           /\ UNCHANGED <<sy_pc, sy_result>>
                      ELSE /\ sy_pc' = "raised"
                           /\ sy_result' = SynthesisError(attempted, errors)
                           /\ UNCHANGED sy_next
    /\ UNCHANGED sy_models

SynthNext ==
    \/ SynthStart /\ FrameSynth
    \/ \E outcome \in SynthCallOutcomes : SynthTry(outcome) /\ FrameSynth

\* ------------------------------------------------------------------------
\* The research graph (src/agents/graph/nodes.py, workflow.py)
\* ------------------------------------------------------------------------
MaxGraphIterations == 2

END == "END"

\* SupervisorDecision.next_step, and what the chain can do: give one of
\* these decisions or fail (LLM error, unparsable output).
NextSteps == {"search", "judge", "resolve", "synthesize", "finish"}
ChainOutcomes == NextSteps \cup {"error"}

\* supervisor_node: the update it returns for a state, and whether the
\* chain was invoked.
\* A variant whose fallback does not count the iteration.
supervisor_node_uncounted(iteration_count, max_iterations, has_llm, chain) ==
    IF iteration_count >= max_iterations
    THEN [next_step |-> "synthesize", iteration_count |-> iteration_count,
          messages |-> <<>>, consulted |-> FALSE]
    ELSE IF ~has_llm
    THEN [next_step |-> "search", iteration_count |-> iteration_count,
          messages |-> <<>>, consulted |-> FALSE]
    ELSE IF chain # "error"
    THEN [next_step |-> chain, iteration_count |-> iteration_count + 1,
          messages |-> <<"Supervisor: reasoning">>, consulted |-> TRUE]
    ELSE [next_step |-> "synthesize", iteration_count |-> iteration_count + 1,
          messages |-> <<"Supervisor Error. Proceeding to synthesis.">>,
          consulted |-> TRUE]

\* A variant whose cap is reached one iteration later.
supervisor_node_strict(iteration_count, max_iterations, has_llm, chain) ==
    IF iteration_count > max_iterations
    THEN [next_step |-> "synthesize", iteration_count |-> iteration_count,
          messages |-> <<>>, consulted |-> FALSE]
    ELSE IF ~has_llm
    THEN [next_step |-> "search", iteration_count |-> iteration_count + 1,
          messages |-> <<>>, consulted |-> FALSE]
    ELSE IF chain # "error"
    THEN [next_step |-> chain, iteration_count |-> iteration_count + 1,
          messages |-> <<"Supervisor: reasoning">>, consulted |-> TRUE]
    ELSE [next_step |-> "synthesize", iteration_count |-> iteration_count + 1,
          messages |-> <<"Supervisor Error. Proceeding to synthesis.">>,
          consulted |-> TRUE]
supervisor_node(iteration_count, max_iterations, has_llm, chain) ==
    IF iteration_count >= max_iterations
    THEN [next_step |-> "synthesize", iteration_count |-> iteration_count,
          messages |-> <<>>, consulted |-> FALSE]
    ELSE IF ~has_llm
    THEN [next_step |-> "search", iteration_count |-> iteration_count + 1,
          messages |-> <<>>, consulted |-> FALSE]
    ELSE IF chain # "error"
    THEN [next_step |-> chain, iteration_count |-> iteration_count + 1,
          messages |-> <<"Supervisor: reasoning">>, consulted |-> TRUE]
    ELSE [next_step |-> "synthesize", iteration_count |-> iteration_count + 1,
          messages |-> <<"Supervisor Error. Proceeding to synthesis.">>,
          consulted |-> TRUE]

\* The conditional edges out of supervisor.
RouteWorkersOnly(next_step) == IF next_step \in {"search", "synthesize"} THEN next_step ELSE END
Route(next_step) == IF next_step = "finish" THEN END ELSE next_step

ReportMessage == "# Final Report"

\* The message a worker node returns.
WorkerMessage(node, hypotheses) ==
    CASE node = "search"  -> "Search completed."
      [] node = "judge"   -> IF hypotheses = 0 THEN "Judge: Proposed initial hypothesis."
                             ELSE "Judge: Evaluated evidence. Confidence updated."
      [] node = "resolve" -> "Resolver: Attempted to resolve conflicts."

GraphEvent(node, update) == [node |-> node, update |-> update]

\* graph.astream(initial_state): any initial state, the entry point is
\* supervisor.
GraphInit ==
    /\ sg_has_llm \in BOOLEAN
    /\ sg_iteration_count \in 0..(MaxGraphIterations + 1)
    /\ sg_max_iterations \in 0..MaxGraphIterations
    /\ sg_next_step \in NextSteps
    /\ sg_hypotheses \in 0..1
    /\ sg_conflicts \in 0..1
    /\ sg_at = "supervisor"
    /\ sg_events = <<>>
    /\ sg_llm_calls = 0
    /\ sg_initial_count = sg_iteration_count

GraphIdle ==
    /\ sg_has_llm = FALSE
    /\ sg_iteration_count = 0
    /\ sg_max_iterations = 0
    /\ sg_next_step = "search"
    /\ sg_hypotheses = 0
    /\ sg_conflicts = 0
    /\ sg_at = "off"
    /\ sg_events = <<>>
    /\ sg_llm_calls = 0
    /\ sg_initial_count = 0

\* The supervisor node runs, its update is merged into the state and the
\* conditional edge picks the next node.
SupervisorStep(chain) ==
    /\ sg_at = "supervisor"
    /\ LET update == supervisor_node(sg_iteration_count, sg_max_iterations, sg_has_llm, chain)
       IN  /\ sg_next_step' = update.next_step
           /\ sg_iteration_count' = update.iteration_count
           /\ sg_llm_calls' = IF update.consulted THEN sg_llm_calls + 1 ELSE sg_llm_calls
           /\ sg_events' = Append(sg_events, GraphEvent("supervisor", update))
           /\ sg_at' = Route(update.next_step)
    /\ UNCHANGED <<sg_has_llm, sg_max_iterations, sg_hypotheses, sg_conflicts,
                   sg_initial_count>>

\* search, judge or resolve runs and reports back to the supervisor.
WorkerStep ==
    /\ sg_at \in {"search", "judge", "resolve"}
    /\ sg_events' = Append(sg_events,
          GraphEvent(sg_at, [messages |-> <<WorkerMessage(sg_at, sg_hypotheses)>>]))
    /\ sg_hypotheses' = IF sg_at = "judge" /\ sg_hypotheses = 0 THEN 1 ELSE sg_hypotheses
    /\ sg_at' = "supervisor"
    /\ UNCHANGED <<sg_has_llm, sg_iteration_count, sg_max_iterations, sg_next_step,
                   sg_conflicts, sg_llm_calls, sg_initial_count>>

\* synthesize runs: the report, next_step = finish, and the graph ends.
SynthesizeStep ==
    /\ sg_at = "synthesize"
    /\ sg_events' = Append(sg_events,
          GraphEvent("synthesize", [messages |-> <<ReportMessage>>, next_step |-> "finish"]))
    /\ sg_next_step' = "finish"
    /\ sg_at' = END
    /\ UNCHANGED <<sg_has_llm, sg_iteration_count, sg_max_iterations, sg_hypotheses,
                   sg_conflicts, sg_llm_calls, sg_initial_count>>

GraphNext ==
    \/ \E chain \in ChainOutcomes : SupervisorStep(chain) /\ FrameGraph
    \/ WorkerStep /\ FrameGraph
    \/ SynthesizeStep /\ FrameGraph

\* ------------------------------------------------------------------------
\* RetryMiddleware (src/middleware/retry.py)
\* ------------------------------------------------------------------------
MaxAttempts == 3

\* The default retryable_status_codes.
RetryableStatusCodes == {429, 500, 502, 503, 504}

\* Exceptions next can raise: with or without a response carrying a status
\* code, and the name of their type.
Error(has_response, status, name) ==
    [kind |-> "error", has_response |-> has_response, status |-> status, name |-> name]

Errors == {Error(TRUE, 429, "Exception"), Error(TRUE, 500, "Exception"),
           Error(TRUE, 404, "Exception"), Error(TRUE, 404, "ReadTimeout"),
           Error(FALSE, 0, "ReadTimeout"), Error(FALSE, 0, "ConnectionError"),
           Error(FALSE, 0, "ValueError")}

\* next returned.
Ok == [kind |-> "ok"]

NextOutcomes == {Ok} \cup Errors

\* Type names as character sequences, for str.lower() and the `in` test.
NameChars(name) ==
    CASE name = "Exception"       -> <<"E","x","c","e","p","t","i","o","n">>
      [] name = "ReadTimeout"     -> <<"R","e","a","d","T","i","m","e","o","u","t">>
      [] name = "ConnectionError" ->
            <<"C","o","n","n","e","c","t","i","o","n","E","r","r","o","r">>
      [] name = "ValueError"      -> <<"V","a","l","u","e","E","r","r","o","r">>
      [] name = "timeout"         -> <<"t","i","m","e","o","u","t">>
      [] name = "connection"      -> <<"c","o","n","n","e","c","t","i","o","n">>
      [] OTHER                    -> <<>>

LowerChar(c) ==
    CASE c = "E" -> "e" [] c = "R" -> "r" [] c = "T" -> "t" [] c = "C" -> "c"
      [] c = "V" -> "v" [] OTHER -> c

Lower(cs) == [j \in DOMAIN cs |-> LowerChar(cs[j])]

_is_retryable_name_first(error) ==
    \/ Contains(Lower(NameChars(error.name)), NameChars("timeout"))
    \/ Contains(Lower(NameChars(error.name)), NameChars("connection"))
    \/ error.has_response /\ error.status \in RetryableStatusCodes
_is_retryable_status_only(error) ==
    error.has_response /\ error.status \in RetryableStatusCodes
_is_retryable(error) ==
    IF error.has_response
    THEN error.status \in RetryableStatusCodes
    ELSE \/ Contains(Lower(NameChars(error.name)), NameChars("timeout"))
         \/ Contains(Lower(NameChars(error.name)), NameChars("connection"))

\* for attempt in range(max_attempts): another pass follows this one.
HasNextAttemptOneMore(attempt, max_attempts) == attempt < max_attempts
HasNextAttempt(attempt, max_attempts) == attempt + 1 < max_attempts

RetryInit ==
    /\ rm_max_attempts \in 0..MaxAttempts
    /\ rm_pc = "idle"
    /\ rm_attempt = 0
    /\ rm_outcomes = <<>>
    /\ rm_sleeps = <<>>
    /\ rm_last_error = <<>>
    /\ rm_raised = <<>>

RetryIdle ==
    /\ rm_max_attempts = 0
    /\ rm_pc = "off"
    /\ rm_attempt = 0
    /\ rm_outcomes = <<>>
    /\ rm_sleeps = <<>>
    /\ rm_last_error = <<>>
    /\ rm_raised = <<>>

\* process(context, next) up to its first call of next; with an empty
\* range the loop is skipped, last_error is None and process returns.
RetryProcess ==
    /\ rm_pc \in {"idle", "returned", "raised"}
    /\ rm_pc' = IF rm_max_attempts > 0 THEN "calling" ELSE "returned"
    /\ rm_attempt' = 0
    /\ rm_outcomes' = <<>>
    /\ rm_sleeps' = <<>>
    /\ rm_last_error' = <<>>
    /\ rm_raised' = <<>>
    /\ UNCHANGED rm_max_attempts

\* await next(context) ends: success returns; a non-retryable error is
\* re-raised; a retryable one is followed by a sleep and the next attempt,
\* or, after the last attempt, by raise last_error.  (The length of the sleep
\* is not modelled.)
RetryCall(outcome) ==
    /\ rm_pc = "calling"
    /\ rm_outcomes' = Append(rm_outcomes, outcome)
    /\ IF outcome = Ok
       THEN /\ rm_pc' = "returned"
            /\ UNCHANGED <<rm_attempt, rm_sleeps, rm_last_error, rm_raised>>
       ELSE LET e == <<outcome, Len(rm_outcomes) + 1>>
            IN  /\ rm_last_error' = e
                /\ IF ~_is_retryable(outcome)
                   THEN /\ rm_pc' = "raised"
                        /\ rm_raised' = e
                        /\ UNCHANGED <<rm_attempt, rm_sleeps>>
                   ELSE IF HasNextAttempt(rm_attempt, rm_max_attempts)
                   THEN /\ rm_sleeps' = Append(rm_sleeps, rm_attempt)
                        /\ rm_attempt' = rm_attempt + 1
                        /\ UNCHANGED <<rm_pc, rm_raised>>
                   ELSE /\ rm_pc' = "raised"
                        /\ rm_raised' = e
                        /\ UNCHANGED <<rm_attempt, rm_sleeps>>
    /\ UNCHANGED rm_max_attempts

RetryNext ==
    \/ RetryProcess /\ FrameRetry
    \/ \E outcome \in NextOutcomes : RetryCall(outcome) /\ FrameRetry

\* ------------------------------------------------------------------------
\* TokenTrackingMiddleware (src/middleware/token_tracking.py)
\* ------------------------------------------------------------------------
MaxRequests == 3
MaxInFlight == 2

\* A usage dict: empty or not, and the value .get(key, 0) gives per key.
Usage(empty, input_tokens, prompt_tokens, output_tokens, completion_tokens) ==
    [empty |-> empty, input_tokens |-> input_tokens, prompt_tokens |-> prompt_tokens,
     output_tokens |-> output_tokens, completion_tokens |-> completion_tokens]

Usages == {Usage(FALSE, 3, 0, 5, 0), Usage(FALSE, 0, 2, 0, 4), Usage(FALSE, 3, 2, 5, 4),
           Usage(FALSE, 0, 0, 0, 0), Usage(TRUE, 0, 0, 0, 0)}

\* What next leaves behind: it raised, or context.result is None, or a result
\* with or without a usage attribute (<<>> is None) and with or without a
\* first message whose metadata may hold a usage.
Response(raised, has_result, has_usage_attr, usage, has_messages, metadata_usage) ==
    [raised |-> raised, has_result |-> has_result, has_usage_attr |-> has_usage_attr,
     usage |-> usage, has_messages |-> has_messages, metadata_usage |-> metadata_usage]

Responses ==
    {Response(TRUE, FALSE, FALSE, <<>>, FALSE, <<>>),
     Response(FALSE, FALSE, FALSE, <<>>, FALSE, <<>>),
     Response(FALSE, TRUE, TRUE, <<>>, FALSE, <<>>),
     Response(FALSE, TRUE, TRUE, <<>>, TRUE, <<Usage(FALSE, 3, 0, 5, 0)>>),
     Response(FALSE, TRUE, FALSE, <<>>, FALSE, <<>>),
     Response(FALSE, TRUE, FALSE, <<>>, TRUE, <<>>),
     Response(FALSE, TRUE, FALSE, <<>>, TRUE, <<Usage(FALSE, 0, 2, 0, 4)>>)}
    \cup {Response(FALSE, TRUE, TRUE, <<u>>, FALSE, <<>>) : u \in Usages}

\* The usage process finds in a result: <<>> or <<usage>>.
usage_of(response) ==
    IF response.has_usage_attr THEN response.usage
    ELSE IF response.has_messages THEN response.metadata_usage
    ELSE <<>>

\* a or b
Or(a, b) == IF a # 0 THEN a ELSE b

\* The counters after process has seen the response.
trackedAlways(stats, response) ==
    LET usage == usage_of(response)
    IN  IF response.raised \/ ~response.has_result THEN stats
        ELSE [total_input  |-> stats.total_input +
                 (IF usage # <<>> THEN Or(usage[1].input_tokens, usage[1].prompt_tokens) ELSE 0),
              total_output |-> stats.total_output +
                 (IF usage # <<>> THEN Or(usage[1].output_tokens, usage[1].completion_tokens) ELSE 0),
              request_count |-> stats.request_count + 1]
tracked(stats, response) ==
    LET usage == usage_of(response)
    IN  IF response.raised \/ ~response.has_result THEN stats
        ELSE IF usage = <<>> \/ usage[1].empty THEN stats
        ELSE [total_input  |-> stats.total_input +
                 Or(usage[1].input_tokens, usage[1].prompt_tokens),
              total_output |-> stats.total_output +
                 Or(usage[1].output_tokens, usage[1].completion_tokens),
              request_count |-> stats.request_count + 1]

get_stats ==
    [total_input |-> tt_total_input_tokens, total_output |-> tt_total_output_tokens,
     request_count |-> tt_request_count]

TokenInit ==
    /\ tt_total_input_tokens = 0
    /\ tt_total_output_tokens = 0
    /\ tt_request_count = 0
    /\ tt_in_flight = 0
    /\ tt_done = <<>>
    /\ tt_entry = <<>>
    /\ tt_peak = 0

TokenIdle ==
    /\ tt_total_input_tokens = 0
    /\ tt_total_output_tokens = 0
    /\ tt_request_count = 0
    /\ tt_in_flight = -1
    /\ tt_done = <<>>
    /\ tt_entry = <<>>
    /\ tt_peak = 0

\* The counters that `self.total_input_tokens += ...` (lines 50-52) adds
\* to: the attributes are read after the await, when the statement runs.
\* The variant adds to what they were when process was entered.
counters_read_at_entry(current, at_entry) == at_entry
counters_read(current, at_entry) == current

\* process(context, next) is called and waits in `await next(context)`.
TokenProcess ==
    /\ tt_in_flight >= 0
    /\ tt_in_flight < MaxInFlight
    /\ Len(tt_done) + tt_in_flight < MaxRequests
    /\ tt_in_flight' = tt_in_flight + 1
    /\ tt_entry' = Append(tt_entry, get_stats)
    /\ tt_peak' = IF tt_in_flight + 1 > tt_peak THEN tt_in_flight + 1 ELSE tt_peak
    /\ UNCHANGED <<tt_total_input_tokens, tt_total_output_tokens, tt_request_count, tt_done>>

\* next of one waiting call (any of them) ends and the rest of process
\* runs, without a further await.
TokenResume(k, response) ==
    /\ tt_in_flight > 0
    /\ k \in DOMAIN tt_entry
    /\ tt_in_flight' = tt_in_flight - 1
    /\ tt_entry' = SubSeq(tt_entry, 1, k - 1) \o SubSeq(tt_entry, k + 1, Len(tt_entry))
    /\ tt_done' = Append(tt_done, response)
    /\ LET stats == tracked(counters_read(get_stats, tt_entry[k]), response)
       IN  /\ tt_total_input_tokens' = stats.total_input
           /\ tt_total_output_tokens' = stats.total_output
           /\ tt_request_count' = stats.request_count
    /\ UNCHANGED tt_peak

TokenNext ==
    \/ TokenProcess /\ FrameToken
    \/ \E k \in 1..MaxInFlight, response \in Responses :
          TokenResume(k, response) /\ FrameToken

\* ------------------------------------------------------------------------
\* RAGTool (src/tools/rag_tool.py)
\* ------------------------------------------------------------------------
MaxDocs == 3

\* Documents retrieve can return: with text and metadata, with empty text,
\* or with metadata a Citation cannot be built from.
Doc(text, url, metadata_ok) == [text |-> text, url |-> url, metadata_ok |-> metadata_ok]

Docs == {Doc("text a", "doi.org/10.1/ab", TRUE), Doc("text b", "example.org/x", TRUE),
         Doc("", "example.org/x", TRUE), Doc("text c", "example.org/x", FALSE)}

\* rag_service.retrieve: a list of documents, or an exception.
NoDocs == [kind |-> "none", docs |-> <<>>]
RetrieveOutcomes == {[kind |-> "raise", docs |-> <<>>]} \cup
                    {[kind |-> "ok", docs |-> d] : d \in SeqsUpTo(Docs, MaxDocs)}

\* _doc_to_evidence raises for this document.
Unconvertible(doc) == doc.text = "" \/ ~doc.metadata_ok

_doc_to_evidence(doc) == [source |-> "rag", url |-> doc.url, content |-> doc.text]

\* The conversion loop of search: unconvertible documents are skipped.
RECURSIVE ConvertDocs(_, _)
ConvertDocs(docs, n) ==
    IF n = 0 THEN <<>>
    ELSE IF Unconvertible(docs[n]) THEN ConvertDocs(docs, n - 1)
    ELSE Append(ConvertDocs(docs, n - 1), _doc_to_evidence(docs[n]))

\* RAGTool._get_rag_service: the service is created on first use;
\* ConfigurationError and ImportError become ConfigurationError, any other
\* exception of get_rag_service passes through.
RAGTool_get_rag_service(service, init) ==
    IF service # None THEN [service |-> service, raised |-> None]
    ELSE IF init = "ok" THEN [service |-> "service", raised |-> None]
    ELSE IF init \in {"ConfigurationError", "ImportError"}
    THEN [service |-> None, raised |-> "ConfigurationError"]
    ELSE [service |-> None, raised |-> init]

RagToolInit ==
    /\ rg_rag_service \in {None, "service"}
    /\ rg_pc = "idle"
    /\ rg_init = None
    /\ rg_retrieved = NoDocs
    /\ rg_result = <<>>

RagToolIdle ==
    /\ rg_rag_service = None
    /\ rg_pc = "off"
    /\ rg_init = None
    /\ rg_retrieved = NoDocs
    /\ rg_result = <<>>

\* search(query): it has no await of its own and runs to its end.
RagToolSearch(init, retrieved) ==
    /\ rg_pc \in {"idle", "returned", "raised"}
    /\ LET got == RAGTool_get_rag_service(rg_rag_service, init)
       IN  /\ rg_rag_service' = got.service
           /\ rg_init' = IF rg_rag_service = None THEN init ELSE None
           /\ IF got.raised = "ConfigurationError"
              THEN /\ rg_pc' = "returned"
                   /\ rg_result' = <<>>
                   /\ rg_retrieved' = NoDocs
              ELSE IF got.raised # None
              THEN /\ rg_pc' = "raised"
                   /\ rg_result' = <<got.raised>>
                   /\ rg_retrieved' = NoDocs
              ELSE /\ rg_pc' = "returned"
                   /\ rg_retrieved' = retrieved
                   /\ rg_result' = IF retrieved.kind = "raise" THEN <<>>
                                    ELSE ConvertDocs(retrieved.docs, Len(retrieved.docs))

RagToolNext ==
    \E init \in RagInitOutcomes, retrieved \in RetrieveOutcomes :
        RagToolSearch(init, retrieved) /\ FrameRagTool

\* ------------------------------------------------------------------------
\* SearchHandler with the RAG tool (add_rag_tool, create_rag_tool)
\* ------------------------------------------------------------------------
MaxBaseTools == 1

\* RAGTool.__init__ stores the service it is given; with none given the
\* service is created on the first search, not here.  It cannot raise.
RAGTool_init(rag_service) == [name |-> "rag", service |-> rag_service, raised |-> None]

\* create_rag_tool: RAGTool(rag_service), an exception of the constructor
\* re-raised as ConfigurationError.
create_rag_tool(rag_service) ==
    LET tool == RAGTool_init(rag_service)
    IN  IF tool.raised # None THEN [tool EXCEPT !.raised = "ConfigurationError"] ELSE tool

\* RAGTool.search seen from execute: what the task of the RAG tool does.
RAGTool_search(service, init, retrieved) ==
    LET got == RAGTool_get_rag_service(service, init)
    IN  IF got.raised = "ConfigurationError"
        THEN [service |-> got.service, outcome |-> [kind |-> "ok", items |-> <<>>]]
        ELSE IF got.raised # None
        THEN [service |-> got.service, outcome |-> [kind |-> "Exception", items |-> <<>>]]
        ELSE IF retrieved.kind = "raise"
        THEN [service |-> got.service, outcome |-> [kind |-> "ok", items |-> <<>>]]
        ELSE [service |-> got.service,
              outcome |-> [kind |-> "ok",
                           items |-> [i \in DOMAIN ConvertDocs(retrieved.docs, Len(retrieved.docs)) |->
                                        Evidence("rag",
                                                 ConvertDocs(retrieved.docs, Len(retrieved.docs))[i].url)]]]

\* The handler after __init__ has copied the tools, before include_rag is
\* looked at.
RagHandlerInit ==
    /\ sh_tools \in {t \in SeqsUpTo(ToolNames, MaxBaseTools) : IsInjective(t)}
    /\ sh_timeout = DefaultTimeout
    /\ sh_auto_ingest \in BOOLEAN
    /\ sh_rag_service = None
    /\ sh_pc = "idle"
    /\ sh_outcomes = <<>>
    /\ sh_results = <<>>
    /\ sh_search_result = None
    /\ rag_ingested = FALSE
    /\ ar_rag_env \in RagInitOutcomes
    /\ ar_tool_service = None
    /\ ar_queried = {}

AddRagIdle ==
    /\ ar_rag_env = "ok"
    /\ ar_tool_service = None
    /\ ar_queried = {}

\* add_rag_tool (called by __init__ when include_rag, or by the owner of
\* the handler): the tool is appended unless create_rag_tool raises.
add_rag_tool ==
    /\ sh_pc = "idle"
    /\ "rag" \notin Range(sh_tools)
    /\ LET tool == create_rag_tool(None)
       IN  /\ sh_tools' = IF tool.raised = None THEN Append(sh_tools, tool.name) ELSE sh_tools
           /\ ar_tool_service' = tool.service
    /\ UNCHANGED <<sh_timeout, sh_auto_ingest, sh_rag_service, sh_pc, sh_outcomes, sh_results,
                   sh_search_result, rag_ingested, ar_rag_env, ar_queried>>

RagExecuteStart ==
    /\ Len(sh_tools) >= 1
    /\ ExecuteStart
    /\ ar_queried' = {}
    /\ UNCHANGED <<ar_rag_env, ar_tool_service>>

\* The task of a tool other than the RAG tool ends.
ToolSearchComplete(i, outcome) ==
    /\ i \in DOMAIN sh_tools
    /\ sh_tools[i] # "rag"
    /\ SearchComplete(i, outcome)
    /\ ar_queried' = ar_queried \cup {sh_tools[i]}
    /\ UNCHANGED <<ar_rag_env, ar_tool_service>>

\* The task of the RAG tool ends: RAGTool.search was called with the query.
RagSearchComplete(i, retrieved) ==
    /\ i \in DOMAIN sh_tools
    /\ sh_tools[i] = "rag"
    /\ LET r == RAGTool_search(ar_tool_service, ar_rag_env, retrieved)
       IN  /\ SearchComplete(i, r.outcome)
           /\ ar_tool_service' = r.service
    /\ ar_queried' = ar_queried \cup {sh_tools[i]}
    /\ UNCHANGED ar_rag_env

RagExecuteFinish(ingest) ==
    /\ ExecuteFinish(ar_rag_env, ingest)
    /\ UNCHANGED ar_vars

RagHandlerNext ==
    \/ add_rag_tool /\ FrameRagHandler
    \/ RagExecuteStart /\ FrameRagHandler
    \/ \E i \in DOMAIN sh_tools : \E o \in SearchOutcomes(sh_tools[i]) :
          ToolSearchComplete(i, o) /\ FrameRagHandler
    \/ \E i \in DOMAIN sh_tools : \E retrieved \in RetrieveOutcomes :
          RagSearchComplete(i, retrieved) /\ FrameRagHandler
    \/ \E ingest \in IngestOutcomes : RagExecuteFinish(ingest) /\ FrameRagHandler

\* ------------------------------------------------------------------------
\* Evidence pool of a run (MagenticState: add_evidence, reset at run start)
\* ------------------------------------------------------------------------
MaxAddLen == 2
MaxPoolCalls == 2

\* Evidence as the pool sees it: the citation URL and the content.
Contents == {"content a", "content b"}
PoolItem(url, content) == [url |-> url, content |-> content]
PoolItems == {PoolItem(u, c) : u \in {"doi.org/10.1/ab", "example.org/x"}, c \in Contents}

PoolURLs(evidence) == {evidence[i].url : i \in DOMAIN evidence}

\* A variant that compares only with the URLs present before the call.
RECURSIVE add_evidence_stale(_, _, _)
add_evidence_stale(evidence, new_evidence, n) ==
    IF n = 0 THEN [evidence |-> evidence, count |-> 0]
    ELSE LET before == add_evidence_stale(evidence, new_evidence, n - 1)
         IN  IF new_evidence[n].url \in PoolURLs(evidence)
             THEN before
             ELSE [evidence |-> Append(before.evidence, new_evidence[n]),
                   count |-> before.count + 1]

\* add_evidence(new_evidence), after its first n items: an item is appended
\* unless an item with its citation URL is in the pool already; the count
\* of appended items is returned.
RECURSIVE add_evidence(_, _, _)
add_evidence(evidence, new_evidence, n) ==
    IF n = 0 THEN [evidence |-> evidence, count |-> 0]
    ELSE LET before == add_evidence(evidence, new_evidence, n - 1)
         IN  IF new_evidence[n].url \in PoolURLs(before.evidence)
             THEN before
             ELSE [evidence |-> Append(before.evidence, new_evidence[n]),
                   count |-> before.count + 1]

\* init_magentic_state(): a state with an empty pool.
PoolInit ==
    /\ ep_pc = "idle"
    /\ ep_evidence = <<>>
    /\ ep_prev = <<>>
    /\ ep_arg = <<>>
    /\ ep_count = 0
    /\ ep_calls = 0

PoolIdle ==
    /\ ep_pc = "off"
    /\ ep_evidence = <<>>
    /\ ep_prev = <<>>
    /\ ep_arg = <<>>
    /\ ep_count = 0
    /\ ep_calls = 0

\* state.add_evidence(new_evidence)
PoolAdd(new_evidence) ==
    /\ ep_pc \in {"idle", "added"}
    /\ ep_calls < MaxPoolCalls
    /\ LET r == add_evidence(ep_evidence, new_evidence, Len(new_evidence))
       IN  /\ ep_evidence' = r.evidence
           /\ ep_count' = r.count
    /\ ep_prev' = ep_evidence
    /\ ep_arg' = new_evidence
    /\ ep_calls' = ep_calls + 1
    /\ ep_pc' = "added"

\* reset_magentic_state() at the start of the next run: a new, empty pool.
PoolReset ==
    /\ ep_pc = "added"
    /\ ep_pc' = "idle"
    /\ ep_evidence' = <<>>
    /\ ep_prev' = <<>>
    /\ ep_arg' = <<>>
    /\ ep_count' = 0
    /\ ep_calls' = 0

PoolNext ==
    \/ \E new_evidence \in SeqsUpTo(PoolItems, MaxAddLen) : PoolAdd(new_evidence) /\ FramePool
    \/ PoolReset /\ FramePool

\* ------------------------------------------------------------------------
\* LlamaIndexRAGService.ingest_evidence (src/services/llamaindex_rag.py)
\* ------------------------------------------------------------------------
MaxIngestLen == 2
MaxIngests == 2

\* The evidence a search hands to the RAG sink: never RAG-sourced.
IngestItems == {Evidence(SourceOf(t), u) : t \in ToolNames, u \in URLs}

\* Document(text, metadata, doc_id = citation.url)
Document(e) == [doc_id |-> e.url, source |-> e.source]

\* index.insert(doc): the document becomes a new node that refers to it by
\* doc_id; the nodes already in the index are neither looked up nor replaced.
index_insert(nodes, doc) == Append(nodes, [ref_doc_id |-> doc.doc_id, source |-> doc.source])

\* The insertion loop over the first n documents.
RECURSIVE insert_all(_, _, _)
insert_all(nodes, evidence_list, n) ==
    IF n = 0 THEN nodes
    ELSE index_insert(insert_all(nodes, evidence_list, n - 1), Document(evidence_list[n]))

RagIndexInit ==
    /\ ix_nodes = <<>>
    /\ ix_calls = 0
    /\ ix_raised = FALSE

RagIndexIdle ==
    /\ ix_nodes = <<>>
    /\ ix_calls = 0
    /\ ix_raised = TRUE

\* ingest_evidence(evidence_list): an empty list returns at once; otherwise
\* every document is inserted, in order, until an insert raises (fail_at is
\* the document whose insert raises, 0 for none); the exception is re-raised.
ingest_evidence(evidence_list, fail_at) ==
    /\ ix_calls < MaxIngests
    /\ fail_at \in 0..Len(evidence_list)
    /\ ix_calls' = ix_calls + 1
    /\ ix_raised' = (fail_at # 0)
    /\ ix_nodes' = insert_all(ix_nodes, evidence_list,
                              IF fail_at = 0 THEN Len(evidence_list) ELSE fail_at - 1)

RagIndexNext ==
    \E evidence_list \in SeqsUpTo(IngestItems, MaxIngestLen), fail_at \in 0..MaxIngestLen :
        ingest_evidence(evidence_list, fail_at) /\ FrameRagIndex

\* ------------------------------------------------------------------------
\* BioRxivTool.search (src/tools/biorxiv.py)
\* ------------------------------------------------------------------------
\* stop_after_attempt(3)
StopAfterAttempt == 3

\* What one request to the preprint API can do: a JSON object with papers,
\* an error status, a failure of the connection, a timeout, a body that is
\* not JSON, JSON that is not an object, a paper whose title is null.
RequestOutcomes == {"papers", "no_papers", "error_status", "connect_error", "timeout",
                    "not_json", "not_an_object", "null_title"}

BxReturn(papers) == [kind |-> "list", type |-> "list", items |-> papers]
BxRaise(type) == [kind |-> "exception", type |-> type, items |-> 0]
BxNone == [kind |-> "none", type |-> "none", items |-> 0]

\* The body of search for one attempt: only httpx.HTTPStatusError, which
\* raise_for_status raises, is caught and re-raised as SearchError.
search_once(request) ==
    CASE request = "papers"        -> BxReturn(1)
      [] request = "no_papers"     -> BxReturn(0)
      [] request = "error_status"  -> BxRaise("SearchError")
      [] request = "connect_error" -> BxRaise("httpx.ConnectError")
      [] request = "timeout"       -> BxRaise("httpx.ReadTimeout")
      [] request = "not_json"      -> BxRaise("JSONDecodeError")
      [] request = "not_an_object" -> BxRaise("AttributeError")
      [] OTHER                     -> BxRaise("AttributeError")

BioRxivInit ==
    /\ bx_pc = "idle"
    /\ bx_attempt = 0
    /\ bx_requests = <<>>
    /\ bx_result = BxNone

BioRxivIdle ==
    /\ bx_pc = "off"
    /\ bx_attempt = 0
    /\ bx_requests = <<>>
    /\ bx_result = BxNone

\* search(query) is called: the decorator starts the first attempt.
BioRxivSearch ==
    /\ bx_pc \in {"idle", "returned", "raised"}
    /\ bx_pc' = "calling"
    /\ bx_attempt' = 1
    /\ bx_requests' = <<>>
    /\ bx_result' = BxNone

\* One attempt ends.  @retry retries after any exception until the third
\* attempt, whose exception it re-raises as it is (reraise=True).
BioRxivAttempt(request) ==
    /\ bx_pc = "calling"
    /\ bx_requests' = Append(bx_requests, request)
    /\ LET r == search_once(request)
       IN  IF r.kind = "list"
           THEN /\ bx_pc' = "returned"
                /\ bx_result' = r
                /\ UNCHANGED bx_attempt
           ELSE IF bx_attempt < StopAfterAttempt
           THEN /\ bx_attempt' = bx_attempt + 1
                /\ UNCHANGED <<bx_pc, bx_result>>
           ELSE /\ bx_pc' = "raised"
                /\ bx_result' = r
                /\ UNCHANGED bx_attempt

BioRxivNext ==
    \/ BioRxivSearch /\ FrameBioRxiv
    \/ \E request \in RequestOutcomes : BioRxivAttempt(request) /\ FrameBioRxiv

\* ------------------------------------------------------------------------
\* create_orchestrator (src/orchestrators/factory.py)
\* ------------------------------------------------------------------------
\* The values callers pass as mode: nothing, the empty string, the four
\* documented modes and two other strings.
Modes == {None, "", "simple", "magentic", "advanced", "hierarchical", "Advanced", "auto"}

\* An optional string argument: given or not, and its characters.
NoKey == [given |-> FALSE, text |-> <<>>]
Key(text) == [given |-> TRUE, text |-> text]
ApiKeys == {NoKey, Key(<<>>), Key(<<"s", "k">>), Key(<<"s", "k", "-">>),
            Key(<<"s", "k", "-", "p", "r", "o", "j">>), Key(<<"s", "k", "-", "a", "n", "t">>),
            Key(<<"h", "f", "_", "x">>), Key(<<"S", "K", "-", "x">>),
            Key(<<"x", "s", "k", "-">>)}

\* str.startswith
startswith(text, prefix) ==
    Len(text) >= Len(prefix) /\ SubSeq(text, 1, Len(prefix)) = prefix

\* A variant that looks at the keys before the explicit mode.
_determine_mode_keys_first(explicit_mode, api_key, has_openai_key) ==
    IF has_openai_key \/ (api_key.given /\ api_key.text # <<>>
                          /\ startswith(api_key.text, <<"s", "k", "-">>))
    THEN "advanced"
    ELSE IF explicit_mode \in {"magentic", "advanced"} THEN "advanced"
    ELSE IF explicit_mode = "hierarchical" THEN "hierarchical"
    ELSE "simple"

\* _determine_mode: `if explicit_mode:` is false for None and for "".
_determine_mode(explicit_mode, api_key, has_openai_key) ==
    IF explicit_mode # None /\ explicit_mode # ""
    THEN IF explicit_mode \in {"magentic", "advanced"} THEN "advanced"
         ELSE IF explicit_mode = "hierarchical" THEN "hierarchical"
         ELSE "simple"
    ELSE IF has_openai_key \/ (api_key.given /\ api_key.text # <<>>
                               /\ startswith(api_key.text, <<"s", "k", "-">>))
    THEN "advanced"
    ELSE "simple"

FactoryInit ==
    /\ co_mode \in Modes
    /\ co_api_key \in ApiKeys
    /\ co_has_openai_key \in BOOLEAN
    /\ co_handlers \in BOOLEAN
    /\ co_importable \in SUBSET {"AdvancedOrchestrator", "HierarchicalOrchestrator"}
    /\ co_pc = "called"
    /\ co_effective_mode = None
    /\ co_created = None

FactoryIdle ==
    /\ co_mode = None
    /\ co_api_key = NoKey
    /\ co_has_openai_key = FALSE
    /\ co_handlers = FALSE
    /\ co_importable = {}
    /\ co_pc = "off"
    /\ co_effective_mode = None
    /\ co_created = None

\* create_orchestrator(search_handler, judge_handler, config, mode, api_key)
create_orchestrator ==
    /\ co_pc = "called"
    /\ LET effective_mode == _determine_mode(co_mode, co_api_key, co_has_openai_key)
       IN  /\ co_effective_mode' = effective_mode
           /\ co_created' =
                CASE effective_mode = "advanced" ->
                        IF "AdvancedOrchestrator" \in co_importable
                        THEN "AdvancedOrchestrator" ELSE "ValueError"
                  [] effective_mode = "hierarchical" ->
                        IF "HierarchicalOrchestrator" \in co_importable
                        THEN "HierarchicalOrchestrator" ELSE "ImportError"
                  [] OTHER -> IF co_handlers THEN "Orchestrator" ELSE "ValueError"
    /\ co_pc' = IF co_created' \in {"ValueError", "ImportError"} THEN "raised" ELSE "returned"
    /\ UNCHANGED <<co_mode, co_api_key, co_has_openai_key, co_handlers, co_importable>>

FactoryNext == create_orchestrator /\ FrameFactory

\* ------------------------------------------------------------------------
\* SearchHandler.execute with the completion order of its tasks observed
\* ------------------------------------------------------------------------
\* What a tool does in the observed calls: it returns no or one item, raises
\* SearchError or does not resolve in time.
ScheduledOutcomes(tool) ==
    {o \in SearchOutcomes(tool) :
        /\ o.kind \in {"ok", "SearchError", "hang"}
        /\ o.kind = "ok" => o.items \in {<<>>, <<Evidence(SourceOf(tool), "doi.org/10.1/ab")>>}}

\* A handler with any tools, each registered once.
ScheduleInit ==
    /\ sh_tools \in {t \in SeqsUpTo(ToolNames, Cardinality(ToolNames)) :
                        Len(t) >= 1 /\ IsInjective(t)}
    /\ sh_timeout = DefaultTimeout
    /\ sh_auto_ingest \in BOOLEAN
    /\ sh_rag_service = None
    /\ sh_pc = "idle"
    /\ sh_outcomes = <<>>
    /\ sh_results = <<>>
    /\ sh_search_result = None
    /\ rag_ingested = FALSE
    /\ sc_order = <<>>

ScheduleIdle == sc_order = <<>>

ScheduleStart ==
    /\ ExecuteStart
    /\ sc_order' = <<>>

\* One of the concurrent tasks ends; any pending task can be the next.
ScheduledComplete(i, outcome) ==
    /\ SearchComplete(i, outcome)
    /\ sc_order' = Append(sc_order, i)

ScheduleFinish(init, ingest) ==
    /\ ExecuteFinish(init, ingest)
    /\ UNCHANGED sc_order

ScheduleNext ==
    \/ ScheduleStart /\ FrameSchedule
    \/ \E i \in DOMAIN sh_tools : \E o \in ScheduledOutcomes(sh_tools[i]) :
          ScheduledComplete(i, o) /\ FrameSchedule
    \/ \E init \in RagInitOutcomes, ingest \in IngestOutcomes :
          ScheduleFinish(init, ingest) /\ FrameSchedule

\* ------------------------------------------------------------------------
\* WriterAgent.write_report (src/agents/writer.py) and
\* LongWriterAgent.write_next_section (src/agents/long_writer.py)
\* ------------------------------------------------------------------------
\* max_retries = 3
max_retries == 3

\* What self.agent.run can do: return a result whose output has a text (for
\* the long writer next_section_markdown) and is or is not of the declared
\* output type, or raise an exception of a class with the given bases.
RunOutput(text, typed) ==
    [kind |-> "output", text |-> text, typed |-> typed, name |-> None, mro |-> {}]
RunRaise(name, mro) ==
    [kind |-> "raise", text |-> None, typed |-> FALSE, name |-> name, mro |-> mro]

RunOutcomes ==
    {RunOutput("text", TRUE), RunOutput("", TRUE), RunOutput("  ", TRUE),
     RunOutput("text", FALSE),
     RunRaise("TimeoutError", {"TimeoutError", "OSError", "Exception"}),
     RunRaise("ConnectionError", {"ConnectionError", "OSError", "Exception"}),
     RunRaise("ConnectionResetError",
              {"ConnectionResetError", "ConnectionError", "OSError", "Exception"}),
     RunRaise("ReadTimeout", {"ReadTimeout", "TimeoutException", "HTTPError", "Exception"}),
     RunRaise("ValueError", {"ValueError", "Exception"})}

\* str.strip() on the texts of the model.
strip(text) == IF text = "  " THEN "" ELSE text

\* The arguments a caller gives: query or title may be empty or blank,
\* findings or draft may be None, short, or longer than the fallback keeps.
WriterArgs ==
    [query : {"", "  ", "query"}, body : {None, "short", "long"}]

\* Input validation of write_report: a default for an empty query and for
\* findings that are None.
write_report_inputs(args) ==
    [query |-> IF strip(args.query) = "" THEN "Research query" ELSE args.query,
     body  |-> IF args.body = None THEN "No findings available." ELSE args.body]

\* Input validation of write_next_section: a default for an empty title,
\* an empty draft for None.
write_next_section_inputs(args) ==
    [query |-> IF strip(args.query) = "" THEN "Section" ELSE args.query,
     body  |-> IF args.body = None THEN "" ELSE args.body]

\* The fallback report: the query and the findings, cut after 500
\* characters, with a note.
fallback_report(inputs) ==
    [kind |-> "fallback", heading |-> inputs.query,
     body |-> IF inputs.body = "long" THEN "long[:500]..." ELSE inputs.body,
     references |-> <<>>]

\* The fallback section: the title and the draft, no references.
fallback_section(inputs) ==
    [kind |-> "fallback", heading |-> inputs.query, body |-> inputs.body,
     references |-> <<>>]

fallback(agent, inputs) ==
    IF agent = "WriterAgent" THEN fallback_report(inputs) ELSE fallback_section(inputs)

\* What the agent returned is handed back as it is.
written(outcome) ==
    [kind |-> "written", heading |-> None, body |-> outcome.text, references |-> <<>>]

\* The validation inside the try block raises ValueError for an output
\* that is empty or blank, and in the long writer for one that is not a
\* LongWriterOutput; the exception the try block ends with, <<>> if none.
raised_in_try(agent, outcome) ==
    IF outcome.kind = "raise" THEN <<outcome>>
    ELSE IF agent = "LongWriterAgent" /\ ~outcome.typed
    THEN <<RunRaise("ValueError", {"ValueError", "Exception"})>>
    ELSE IF outcome.text = "" \/ strip(outcome.text) = ""
    THEN <<RunRaise("ValueError", {"ValueError", "Exception"})>>
    ELSE <<>>

\* except (TimeoutError, ConnectionError): an instance of either class.
\* The variant takes every exception for transient.
is_transient_any(exc) == TRUE
is_transient(exc) == exc.mro \cap {"TimeoutError", "ConnectionError"} # {}

WriterInit ==
    /\ wr_agent = None
    /\ wr_inputs = None
    /\ wr_pc = "idle"
    /\ wr_attempt = 0
    /\ wr_runs = <<>>
    /\ wr_last_exception = <<>>
    /\ wr_result = None

WriterIdle ==
    /\ wr_agent = None
    /\ wr_inputs = None
    /\ wr_pc = "off"
    /\ wr_attempt = 0
    /\ wr_runs = <<>>
    /\ wr_last_exception = <<>>
    /\ wr_result = None

\* The call up to its first await of self.agent.run.
WriterCall(agent, inputs) ==
    /\ wr_pc \in {"idle", "returned"}
    /\ wr_agent' = agent
    /\ wr_inputs' = inputs
    /\ wr_pc' = "running"
    /\ wr_attempt' = 0
    /\ wr_runs' = <<>>
    /\ wr_last_exception' = <<>>
    /\ wr_result' = None

write_report(args) == WriterCall("WriterAgent", write_report_inputs(args))

write_next_section(args) == WriterCall("LongWriterAgent", write_next_section_inputs(args))

\* self.agent.run ends: a valid output is returned; a transient error is
\* followed by the next attempt unless this was the last one; any other
\* exception, and the last transient one, leave the loop and the fallback
\* is returned.
WriterRun(outcome) ==
    /\ wr_pc = "running"
    /\ wr_runs' = Append(wr_runs, outcome)
    /\ LET exc == raised_in_try(wr_agent, outcome)
       IN  IF exc = <<>>
           THEN /\ wr_pc' = "returned"
                /\ wr_result' = written(outcome)
                /\ UNCHANGED <<wr_attempt, wr_last_exception>>
           ELSE /\ wr_last_exception' = exc
                /\ IF is_transient(exc[1]) /\ wr_attempt < max_retries - 1
                   THEN /\ wr_attempt' = wr_attempt + 1
                        /\ UNCHANGED <<wr_pc, wr_result>>
                   ELSE /\ wr_pc' = "returned"
                        /\ wr_result' = fallback(wr_agent, wr_inputs)
                        /\ UNCHANGED wr_attempt
    /\ UNCHANGED <<wr_agent, wr_inputs>>

WriterNext ==
    \/ \E args \in WriterArgs : write_report(args) /\ FrameWriter
    \/ \E args \in WriterArgs : write_next_section(args) /\ FrameWriter
    \/ \E outcome \in RunOutcomes : WriterRun(outcome) /\ FrameWriter

\* ------------------------------------------------------------------------
\* Specifications
\* ------------------------------------------------------------------------
SearchIdle ==
    /\ sh_tools = <<>>
    /\ sh_timeout = DefaultTimeout
    /\ sh_auto_ingest = FALSE
    /\ sh_rag_service = None
    /\ sh_pc = "off"
    /\ sh_outcomes = <<>>
    /\ sh_results = <<>>
    /\ sh_search_result = None
    /\ rag_ingested = FALSE

InitSearch == SearchInit /\ DedupIdle /\ LoopIdle /\ JudgeIdle /\ TeamIdle /\ HoIdle /\
    SynthIdle /\ GraphIdle /\ RetryIdle /\ TokenIdle /\ RagToolIdle /\ AddRagIdle /\
    PoolIdle /\ RagIndexIdle /\ BioRxivIdle /\ FactoryIdle /\ ScheduleIdle /\ WriterIdle
SpecSearch == InitSearch /\ [][SearchNext]_vars

InitDedup == DedupInit /\ SearchIdle /\ LoopIdle /\ JudgeIdle /\ TeamIdle /\ HoIdle /\
    SynthIdle /\ GraphIdle /\ RetryIdle /\ TokenIdle /\ RagToolIdle /\ AddRagIdle /\
    PoolIdle /\ RagIndexIdle /\ BioRxivIdle /\ FactoryIdle /\ ScheduleIdle /\ WriterIdle
SpecDedup == InitDedup /\ [][DedupNext]_vars

InitLoop == LoopInit /\ SearchIdle /\ DedupIdle /\ JudgeIdle /\ TeamIdle /\ HoIdle /\
    SynthIdle /\ GraphIdle /\ RetryIdle /\ TokenIdle /\ RagToolIdle /\ AddRagIdle /\
    PoolIdle /\ RagIndexIdle /\ BioRxivIdle /\ FactoryIdle /\ ScheduleIdle /\ WriterIdle
SpecLoop == InitLoop /\ [][LoopNext]_vars

InitJudge == JudgeInit /\ SearchIdle /\ DedupIdle /\ LoopIdle /\ TeamIdle /\ HoIdle /\
    SynthIdle /\ GraphIdle /\ RetryIdle /\ TokenIdle /\ RagToolIdle /\ AddRagIdle /\
    PoolIdle /\ RagIndexIdle /\ BioRxivIdle /\ FactoryIdle /\ ScheduleIdle /\ WriterIdle
SpecJudge == InitJudge /\ [][JudgeNext]_vars

InitHier == HierInit /\ SearchIdle /\ DedupIdle /\ LoopIdle /\ JudgeIdle /\
    SynthIdle /\ GraphIdle /\ RetryIdle /\ TokenIdle /\ RagToolIdle /\ AddRagIdle /\
    PoolIdle /\ RagIndexIdle /\ BioRxivIdle /\ FactoryIdle /\ ScheduleIdle /\ WriterIdle
SpecHier == InitHier /\ [][HierNext]_vars

InitSynth == SynthInit /\ SearchIdle /\ DedupIdle /\ LoopIdle /\ JudgeIdle /\
    TeamIdle /\ HoIdle /\ GraphIdle /\ RetryIdle /\ TokenIdle /\ RagToolIdle /\
    AddRagIdle /\ PoolIdle /\ RagIndexIdle /\ BioRxivIdle /\ FactoryIdle /\
    ScheduleIdle /\ WriterIdle
SpecSynth == InitSynth /\ [][SynthNext]_vars

InitTeam == TeamInit /\ SearchIdle /\ DedupIdle /\ LoopIdle /\ JudgeIdle /\ HoIdle /\
    SynthIdle /\ GraphIdle /\ RetryIdle /\ TokenIdle /\ RagToolIdle /\ AddRagIdle /\
    PoolIdle /\ RagIndexIdle /\ BioRxivIdle /\ FactoryIdle /\ ScheduleIdle /\ WriterIdle
SpecTeam == InitTeam /\ [][TeamNext]_vars

InitGraph == GraphInit /\ SearchIdle /\ DedupIdle /\ LoopIdle /\ JudgeIdle /\
    TeamIdle /\ HoIdle /\ SynthIdle /\ RetryIdle /\ TokenIdle /\ RagToolIdle /\
    AddRagIdle /\ PoolIdle /\ RagIndexIdle /\ BioRxivIdle /\ FactoryIdle /\
    ScheduleIdle /\ WriterIdle
SpecGraph == InitGraph /\ [][GraphNext]_vars

InitRetry == RetryInit /\ SearchIdle /\ DedupIdle /\ LoopIdle /\ JudgeIdle /\
    TeamIdle /\ HoIdle /\ SynthIdle /\ GraphIdle /\ TokenIdle /\ RagToolIdle /\
    AddRagIdle /\ PoolIdle /\ RagIndexIdle /\ BioRxivIdle /\ FactoryIdle /\
    ScheduleIdle /\ WriterIdle
SpecRetry == InitRetry /\ [][RetryNext]_vars

InitToken == TokenInit /\ SearchIdle /\ DedupIdle /\ LoopIdle /\ JudgeIdle /\
    TeamIdle /\ HoIdle /\ SynthIdle /\ GraphIdle /\ RetryIdle /\ RagToolIdle /\
    AddRagIdle /\ PoolIdle /\ RagIndexIdle /\ BioRxivIdle /\ FactoryIdle /\
    ScheduleIdle /\ WriterIdle
SpecToken == InitToken /\ [][TokenNext]_vars

InitRagTool == RagToolInit /\ SearchIdle /\ DedupIdle /\ LoopIdle /\ JudgeIdle /\
    TeamIdle /\ HoIdle /\ SynthIdle /\ GraphIdle /\ RetryIdle /\ TokenIdle /\
    AddRagIdle /\ PoolIdle /\ RagIndexIdle /\ BioRxivIdle /\ FactoryIdle /\
    ScheduleIdle /\ WriterIdle
SpecRagTool == InitRagTool /\ [][RagToolNext]_vars

InitRagHandler == RagHandlerInit /\ DedupIdle /\ LoopIdle /\ JudgeIdle /\ TeamIdle /\
    HoIdle /\ SynthIdle /\ GraphIdle /\ RetryIdle /\ TokenIdle /\ RagToolIdle /\
    PoolIdle /\ RagIndexIdle /\ BioRxivIdle /\ FactoryIdle /\ ScheduleIdle /\ WriterIdle
SpecRagHandler == InitRagHandler /\ [][RagHandlerNext]_vars

InitPool == PoolInit /\ SearchIdle /\ DedupIdle /\ LoopIdle /\ JudgeIdle /\ TeamIdle /\
    HoIdle /\ SynthIdle /\ GraphIdle /\ RetryIdle /\ TokenIdle /\ RagToolIdle /\
    AddRagIdle /\ RagIndexIdle /\ BioRxivIdle /\ FactoryIdle /\ ScheduleIdle /\
    WriterIdle
SpecPool == InitPool /\ [][PoolNext]_vars

InitRagIndex == RagIndexInit /\ SearchIdle /\ DedupIdle /\ LoopIdle /\ JudgeIdle /\
    TeamIdle /\ HoIdle /\ SynthIdle /\ GraphIdle /\ RetryIdle /\ TokenIdle /\
    RagToolIdle /\ AddRagIdle /\ PoolIdle /\ BioRxivIdle /\ FactoryIdle /\
    ScheduleIdle /\ WriterIdle
SpecRagIndex == InitRagIndex /\ [][RagIndexNext]_vars

InitBioRxiv == BioRxivInit /\ SearchIdle /\ DedupIdle /\ LoopIdle /\ JudgeIdle /\
    TeamIdle /\ HoIdle /\ SynthIdle /\ GraphIdle /\ RetryIdle /\ TokenIdle /\
    RagToolIdle /\ AddRagIdle /\ PoolIdle /\ RagIndexIdle /\ FactoryIdle /\
    ScheduleIdle /\ WriterIdle
SpecBioRxiv == InitBioRxiv /\ [][BioRxivNext]_vars

InitFactory == FactoryInit /\ SearchIdle /\ DedupIdle /\ LoopIdle /\ JudgeIdle /\
    TeamIdle /\ HoIdle /\ SynthIdle /\ GraphIdle /\ RetryIdle /\ TokenIdle /\
    RagToolIdle /\ AddRagIdle /\ PoolIdle /\ RagIndexIdle /\ BioRxivIdle /\
    ScheduleIdle /\ WriterIdle
SpecFactory == InitFactory /\ [][FactoryNext]_vars

InitSchedule == ScheduleInit /\ DedupIdle /\ LoopIdle /\ JudgeIdle /\ TeamIdle /\
    HoIdle /\ SynthIdle /\ GraphIdle /\ RetryIdle /\ TokenIdle /\ RagToolIdle /\
    AddRagIdle /\ PoolIdle /\ RagIndexIdle /\ BioRxivIdle /\ FactoryIdle /\ WriterIdle
SpecSchedule == InitSchedule /\ [][ScheduleNext]_vars

InitWriter == WriterInit /\ SearchIdle /\ DedupIdle /\ LoopIdle /\ JudgeIdle /\
    TeamIdle /\ HoIdle /\ SynthIdle /\ GraphIdle /\ RetryIdle /\ TokenIdle /\
    RagToolIdle /\ AddRagIdle /\ PoolIdle /\ RagIndexIdle /\ BioRxivIdle /\
    FactoryIdle /\ ScheduleIdle
SpecWriter == InitWriter /\ [][WriterNext]_vars

\* ------------------------------------------------------------------------
\* Properties of SearchHandler.execute
\* ------------------------------------------------------------------------
Returned == sh_pc = "returned"

Keys(items) == {extract_paper_id(items[j]) : j \in DOMAIN items} \ {None}

NoDuplicateKeys(items) ==
    \A i, j \in DOMAIN items :
        (i # j /\ extract_paper_id(items[i]) # None)
            => extract_paper_id(items[i]) # extract_paper_id(items[j])

ErrorsOf(tool) == {j \in DOMAIN sh_search_result.errors : sh_search_result.errors[j].tool = tool}

RemoveAt(seq, i) == [j \in 1..(Len(seq) - 1) |-> IF j < i THEN seq[j] ELSE seq[j + 1]]

C2_TimeoutIsolated ==
    /\ \A i \in DOMAIN sh_outcomes :
          sh_outcomes[i].kind = "hang" => sh_results[i].kind = "exc"
    /\ Returned =>
        \A i \in DOMAIN sh_tools :
            sh_outcomes[i].kind = "hang" =>
                LET others == ProcessResults(RemoveAt(sh_tools, i), RemoveAt(sh_results, i),
                                             Len(sh_tools) - 1)
                IN  /\ sh_tools[i] \notin Range(sh_search_result.sources_searched)
                    /\ Cardinality(ErrorsOf(sh_tools[i])) = 1
                    /\ \A j \in ErrorsOf(sh_tools[i]) :
                          /\ sh_search_result.errors[j].msg.what = "timed_out"
                          /\ sh_search_result.errors[j].msg.after = sh_timeout
                    /\ sh_search_result.evidence = others.all_evidence
                    /\ sh_search_result.sources_searched = others.sources_searched

C2_Witness ==
    /\ Returned
    /\ Len(sh_tools) = 2
    /\ sh_outcomes[1].kind = "hang"
    /\ sh_outcomes[2].kind = "ok"
    /\ Len(sh_search_result.evidence) = MaxItems
    /\ sh_search_result.sources_searched = <<sh_tools[2]>>

\* C3: execute never raises, whatever the tools and the RAG sink do.
C3_ExecuteNeverRaises == sh_pc # "raised"

\* C4: the evidence execute returns has no two items with the same paper id.
C4_EvidenceDeduplicated ==
    Returned => NoDuplicateKeys(sh_search_result.evidence)

\* The item deduplication must keep for key k: the first item of the best
\* priority among the items with that key.
Winner(items, k) ==
    LET with == {j \in DOMAIN items : extract_paper_id(items[j]) = k}
        best == {j \in with : \A m \in with :
                    source_priority(items[j].source) <= source_priority(items[m].source)}
    IN  items[CHOOSE j \in best : \A m \in best : j <= m]

\* C5: of the items that share a key, the returned evidence holds exactly
\* one, the first one of the highest-priority source.
C5_PriorityWinnerKept ==
    Returned =>
        LET gathered == ProcessResults(sh_tools, sh_results, Len(sh_tools)).all_evidence
        IN  \A k \in Keys(gathered) :
                LET kept == {j \in DOMAIN sh_search_result.evidence :
                                extract_paper_id(sh_search_result.evidence[j]) = k}
                IN  /\ Cardinality(kept) = 1
                    /\ \A j \in kept : sh_search_result.evidence[j] = Winner(gathered, k)

\* C7: total_found is len(evidence), and sources_searched names only tools
\* whose search returned normally in this call.
C7_ResultInvariant ==
    Returned =>
        /\ sh_search_result.total_found = Len(sh_search_result.evidence)
        /\ \A n \in Range(sh_search_result.sources_searched) :
              \E i \in DOMAIN sh_tools : sh_tools[i] = n /\ sh_outcomes[i].kind = "ok"
        /\ \A i \in DOMAIN sh_tools :
              sh_outcomes[i].kind # "ok"
                  => sh_tools[i] \notin Range(sh_search_result.sources_searched)

C7_Witness ==
    /\ Returned
    /\ Len(sh_tools) = 2
    /\ sh_outcomes[1].kind = "ok"
    /\ sh_outcomes[2].kind = "Exception"
    /\ sh_search_result.total_found = MaxItems
    /\ sh_search_result.sources_searched = <<sh_tools[1]>>

\* ------------------------------------------------------------------------
\* Properties of deduplication
\* ------------------------------------------------------------------------
\* C6: deduplicating twice gives the same set of items as deduplicating once.
C6_DedupIdempotent ==
    dd_pc = "twice" => Range(dd_twice) = Range(dd_once)

C6_Witness ==
    /\ dd_pc = "twice"
    /\ Len(dd_in) = 3
    /\ Len(dd_once) = 2
    /\ Range(dd_twice) = Range(dd_once)

\* ------------------------------------------------------------------------
\* Properties of the iterative orchestrator
\* ------------------------------------------------------------------------
LoopLeft == it_state \in {"Synthesizing", "Complete", "Error"}

\* C8: the iteration counter never exceeds max_iterations; while every
\* verdict has been insufficient the loop is left for Synthesizing only at
\* iteration = max_iterations, and a judge call made at the cap never leads
\* back to Searching; once the loop is left no search or judge call is made.
C8_LoopTerminationBound ==
    /\ [](it_iteration <= it_max_iterations)
    /\ []((it_state = "Synthesizing" /\ ~it_sufficient_seen)
              => it_iteration = it_max_iterations)
    /\ [][(it_state = "Judging" /\ it_iteration = it_max_iterations)
              => it_state' \in {"Synthesizing", "Error"}]_vars
    /\ [][LoopLeft => (it_searches' = it_searches /\ it_judges' = it_judges)]_vars

C8_Witness ==
    /\ it_state = "Synthesizing"
    /\ ~it_sufficient_seen
    /\ it_max_iterations = 3
    /\ it_iteration = 3
    /\ it_judges = 4

\* ------------------------------------------------------------------------
\* Properties of the judge handler
\* ------------------------------------------------------------------------
\* C10: on a quota / payment-required error assess does not raise; it
\* returns sufficient = True, the quota marker as reasoning, the title of
\* every input evidence item among key_findings, and the 'extraction
\* unavailable' sentinel, not an empty list, as drug_candidates.
C10_QuotaFallback ==
    (jh_pc = "done" /\ is_quota_error(jh_outcome)) =>
        /\ jh_result.raised = None
        /\ jh_result.sufficient = TRUE
        /\ jh_result.reasoning = QuotaMarker
        /\ \A j \in DOMAIN jh_evidence :
              jh_evidence[j].title \in Range(jh_result.key_findings)
        /\ jh_result.drug_candidates = ExtractionUnavailable
        /\ jh_result.drug_candidates # <<>>

C10_Witness ==
    /\ jh_pc = "done"
    /\ jh_outcome = "402 Payment Required"
    /\ Len(jh_evidence) = 2
    /\ jh_evidence[1].title # jh_evidence[2].title
    /\ jh_result.sufficient = TRUE
    /\ Len(jh_result.key_findings) = 2

\* ------------------------------------------------------------------------
\* Properties of HierarchicalOrchestrator.run
\* ------------------------------------------------------------------------
HoEnded == ho_pc \in {"done", "escaped"}

\* C9: no exception of a collaborator reaches the consumer of the event
\* stream: the exception never escapes run, and a run in which a team or
\* the report agent raised ends with a terminal event of type error.
C9_TerminalErrorEvent ==
    /\ ho_pc # "escaped"
    /\ (HoEnded /\ ho_failure # None) =>
          /\ Len(ho_events) > 0
          /\ ho_events[Len(ho_events)].type = "error"

\* ------------------------------------------------------------------------
\* Properties of synthesize
\* ------------------------------------------------------------------------
\* C11: when every model of the list raised or answered too short,
\* synthesize raises SynthesisError whose attempted_models are exactly the
\* K models of the list, in list order, and whose errors are exactly K, the
\* i-th about the i-th model; a configured model_id makes K = 1 with that
\* model as the only attempted one.
C11_SynthesisExhaustion ==
    (/\ sy_pc \in {"returned", "raised"}
     /\ Len(sy_replies) = Len(sy_models)
     /\ \A j \in DOMAIN sy_replies :
           sy_replies[j].kind = "raise" \/ sy_replies[j].len < MinSynthesisLength)
    => /\ sy_pc = "raised"
       /\ sy_result.kind = "SynthesisError"
       /\ sy_result.attempted_models = sy_models
       /\ Len(sy_result.errors) = Len(sy_models)
       /\ \A j \in DOMAIN sy_models : sy_result.errors[j].model = sy_models[j]
       /\ (sy_models[1] = CustomModel =>
             sy_result.attempted_models = <<CustomModel>> /\ Len(sy_result.errors) = 1)

\* C11 witness: three fallback models, one raising and two answering too
\* short, end in SynthesisError.
C11_Witness ==
    /\ sy_pc = "raised"
    /\ Len(sy_models) = MaxModels
    /\ \E j \in DOMAIN sy_replies : sy_replies[j].kind = "raise"
    /\ \E j \in DOMAIN sy_replies : sy_replies[j].kind = "text"
    /\ Len(sy_result.errors) = MaxModels

\* C12: the models are called strictly in list order; once a call answers
\* a text of at least the minimum length, synthesize returns that text and
\* calls no further model; a call that raised or answered too short is
\* followed by the next model; no returned text is shorter than the minimum.
C12_FirstAcceptableWins ==
    /\ sy_pc # "off" =>
          /\ Len(sy_calls) <= Len(sy_models)
          /\ \A j \in DOMAIN sy_calls : sy_calls[j] = sy_models[j]
          /\ \A j \in DOMAIN sy_replies :
                (sy_replies[j].kind = "text" /\ sy_replies[j].len >= MinSynthesisLength)
                => /\ j = Len(sy_replies)
                   /\ sy_pc = "returned"
                   /\ sy_result = [kind |-> "text", model |-> sy_models[j],
                                   len |-> sy_replies[j].len]
    /\ sy_pc = "returned" =>
          /\ sy_result.kind = "text"
          /\ sy_result.len >= MinSynthesisLength
          /\ sy_result.model = sy_calls[Len(sy_calls)]
    /\ sy_pc = "trying" => Len(sy_calls) = sy_next - 1

\* C12 witness: the first model raised, the second answered too short and
\* the third one's text is returned.
C12_Witness ==
    /\ sy_pc = "returned"
    /\ Len(sy_calls) = 3
    /\ sy_replies[1].kind = "raise"
    /\ sy_replies[2].kind = "text"
    /\ sy_result.model = sy_models[3]

\* ------------------------------------------------------------------------
\* Properties of ResearchTeam.run
\* ------------------------------------------------------------------------
ContainsSufficient(verdict) == Contains(Chars(verdict), Chars("SUFFICIENT"))

\* C13: if the first judge verdict containing SUFFICIENT is given in round
\* k, run has returned right after that round: k is at most max_iterations,
\* no later verdict exists, every agent was run exactly k times, the judge
\* exactly k times, and the status of the returned header is that verdict.
C13_StopsWhenJudgeSatisfied ==
    \A k \in DOMAIN rt_verdicts :
        (/\ ContainsSufficient(rt_verdicts[k])
         /\ \A j \in 1..(k - 1) : ~ContainsSufficient(rt_verdicts[j]))
        => /\ rt_pc = "returned"
           /\ k <= rt_max_iterations
           /\ Len(rt_verdicts) = k
           /\ rt_i = k - 1
           /\ \A a \in DOMAIN rt_agent_runs : rt_agent_runs[a] = k
           /\ rt_judge_runs = k
           /\ rt_return.team = rt_name
           /\ rt_return.status = rt_verdicts[k]

\* C13 witness: two agents, CONTINUE in round 1 and SUFFICIENT in round 2.
C13_Witness ==
    /\ rt_pc = "returned"
    /\ ho_pc = "off"
    /\ Len(rt_agents) = 2
    /\ rt_verdicts = <<"CONTINUE", "SUFFICIENT">>
    /\ rt_agent_runs = <<2, 2>>
    /\ rt_return.status = "SUFFICIENT"

\* ------------------------------------------------------------------------
\* Properties of the research graph
\* ------------------------------------------------------------------------
\* C14: in every state with iteration_count >= max_iterations the supervisor
\* returns next_step = synthesize, does not consult the LLM and leaves
\* iteration_count unchanged, whatever hypotheses, conflicts and the
\* previous next_step are.
C14_SupervisorForcesSynthesis ==
    [][(sg_at = "supervisor" /\ sg_iteration_count >= sg_max_iterations)
       => /\ sg_next_step' = "synthesize"
          /\ sg_iteration_count' = sg_iteration_count
          /\ sg_llm_calls' = sg_llm_calls
          /\ sg_events'[Len(sg_events')].update.consulted = FALSE]_vars

\* C14 witness: a graph with an LLM that was consulted before; at the cap,
\* with a hypothesis and an open conflict, the supervisor returned
\* synthesize on its own.
C14_Witness ==
    /\ sg_has_llm
    /\ sg_llm_calls > 0
    /\ sg_hypotheses = 1
    /\ sg_conflicts = 1
    /\ sg_at = "synthesize"
    /\ sg_iteration_count >= sg_max_iterations
    /\ sg_events[Len(sg_events)].node = "supervisor"
    /\ sg_events[Len(sg_events)].update.consulted = FALSE
    /\ sg_events[Len(sg_events)].update.iteration_count = sg_max_iterations

LastEvent == sg_events[Len(sg_events)]

EndsWithReport ==
    /\ Len(sg_events) > 0
    /\ LastEvent.node = "synthesize"
    /\ LastEvent.update.messages = <<ReportMessage>>

\* C15 as stated: every run that has ended has the synthesize node's output,
\* with its report message, as the final event of the stream.
C15_EndsWithSynthesize == sg_at = END => EndsWithReport

\* C15 amended: a run ends either with the synthesize node's output as its
\* final event, or, when the LLM's decision below the cap was finish, with
\* that supervisor event and no report; every other decision, and a failed
\* LLM call, leads to synthesize in the end.
C15_EndsWithSynthesizeUnlessFinish ==
    sg_at = END =>
        \/ EndsWithReport
        \/ /\ LastEvent.node = "supervisor"
           /\ LastEvent.update.consulted
           /\ LastEvent.update.next_step = "finish"
           /\ sg_has_llm
           /\ \A j \in DOMAIN sg_events : sg_events[j].node # "synthesize"

\* C15 witness: the supervisor decided search, judge and resolve, its LLM
\* call failed or the cap was reached, and the run ended with the report.
C15_Witness ==
    /\ sg_at = END
    /\ EndsWithReport
    /\ \E j \in DOMAIN sg_events : sg_events[j].node = "search"
    /\ \E j \in DOMAIN sg_events : sg_events[j].node = "judge"
    /\ Len(sg_events) >= 5

\* ------------------------------------------------------------------------
\* Properties of HierarchicalOrchestrator.run without failures
\* ------------------------------------------------------------------------
EventTypes == [j \in DOMAIN ho_events |-> ho_events[j].type]

ExpectedTypes == <<"started", "judging", "search_complete", "judging", "hypothesizing",
                   "judging", "complete">>

\* C16: as long as no collaborator has raised, the events are a prefix of
\* started, judging, search_complete, judging, hypothesizing, judging,
\* complete, the analysis team is run only after search_complete and with
\* the search team's result, and a run that has completed has yielded
\* exactly these seven events, has run the search team, the analysis team
\* and then the report agent, once each, and its complete event carries the
\* report agent's last message, or "No report." without one.
C16_HappyPathEvents ==
    (ho_pc # "off" /\ ho_failure = None) =>
        /\ Len(ho_events) <= Len(ExpectedTypes)
        /\ EventTypes = SubSeq(ExpectedTypes, 1, Len(ho_events))
        /\ Len(ho_calls) <= 3
        /\ Len(ho_calls) >= 1 => ho_calls[1] = Call("SearchTeam", <<>>)
        /\ Len(ho_calls) >= 2 =>
              /\ Len(ho_events) >= 4
              /\ ho_search_result.team = "SearchTeam"
              /\ ho_events[3].message = ho_search_result
              /\ ho_calls[2] = Call("AnalysisTeam", <<ho_search_result>>)
        /\ Len(ho_calls) = 3 =>
              /\ ho_analysis_result.team = "AnalysisTeam"
              /\ ho_calls[3] = Call("ReportAgent", <<ho_search_result, ho_analysis_result>>)
        /\ ho_pc \in {"complete", "done"} =>
              /\ EventTypes = ExpectedTypes
              /\ Len(ho_calls) = 3
              /\ ho_events[7].message =
                    (IF ho_report = "reply" THEN "Final Report" ELSE "No report.")

\* C16 witness: a completed run whose search team needed two rounds and
\* whose report agent returned no message.
C16_Witness ==
    /\ ho_pc = "done"
    /\ ho_failure = None
    /\ Len(ho_events) = 7
    /\ Len(ho_search_result.body) > 3
    /\ ho_report = "empty"
    /\ ho_events[7].message = "No report."

\* ------------------------------------------------------------------------
\* Properties of RetryMiddleware.process
\* ------------------------------------------------------------------------
\* A transient failure: a response with a retryable status, or, without a
\* response, a timeout or a connection error.
Transient(outcome) ==
    /\ outcome # Ok
    /\ \/ outcome.has_response /\ outcome.status \in {429, 500, 502, 503, 504}
       \/ ~outcome.has_response /\ outcome.name \in {"ReadTimeout", "ConnectionError"}

AllTransient == \A j \in DOMAIN rm_outcomes : Transient(rm_outcomes[j])

RetryEnded == rm_pc \in {"returned", "raised"}

\* C17: after fewer than max_attempts calls of next that all failed with a
\* retryable error, process calls next again; when the first k-1 calls
\* failed so and the k-th succeeded, k <= max_attempts, process has returned
\* normally and next was called exactly k times.
C17_RetriesUntilSuccess ==
    /\ (rm_pc # "off" /\ rm_outcomes # <<>> /\ AllTransient
        /\ Len(rm_outcomes) < rm_max_attempts)
       => rm_pc = "calling" /\ rm_attempt = Len(rm_outcomes)
    /\ \A k \in DOMAIN rm_outcomes :
          (/\ rm_outcomes[k] = Ok
           /\ \A j \in 1..(k - 1) : Transient(rm_outcomes[j]))
          => /\ k <= rm_max_attempts
             /\ rm_pc = "returned"
             /\ Len(rm_outcomes) = k
             /\ rm_raised = <<>>

\* C17 witness: two retryable failures, then success on the third call.
C17_Witness ==
    /\ rm_pc = "returned"
    /\ rm_max_attempts = 3
    /\ Len(rm_outcomes) = 3
    /\ Transient(rm_outcomes[1])
    /\ Transient(rm_outcomes[2])
    /\ rm_outcomes[3] = Ok
    /\ rm_sleeps = <<0, 1>>

CarriedUsage(r) == ~r.raised /\ r.has_result /\ usage_of(r) # <<>> /\ ~usage_of(r)[1].empty

InputCount(r) ==
    IF usage_of(r)[1].input_tokens > 0 THEN usage_of(r)[1].input_tokens
    ELSE usage_of(r)[1].prompt_tokens

OutputCount(r) ==
    IF usage_of(r)[1].output_tokens > 0 THEN usage_of(r)[1].output_tokens
    ELSE usage_of(r)[1].completion_tokens

RECURSIVE SumInput(_, _)
SumInput(done, n) ==
    IF n = 0 THEN 0
    ELSE SumInput(done, n - 1) + (IF CarriedUsage(done[n]) THEN InputCount(done[n]) ELSE 0)

RECURSIVE SumOutput(_, _)
SumOutput(done, n) ==
    IF n = 0 THEN 0
    ELSE SumOutput(done, n - 1) + (IF CarriedUsage(done[n]) THEN OutputCount(done[n]) ELSE 0)

\* C19: after any sequence of process calls the two totals are the sums of
\* the input and output token counts of the responses that carried usage
\* and request_count is the number of those responses (so a response
\* without usage changed none of the three).
C19_ExactRunningTotals ==
    /\ tt_total_input_tokens = SumInput(tt_done, Len(tt_done))
    /\ tt_total_output_tokens = SumOutput(tt_done, Len(tt_done))
    /\ tt_request_count = Cardinality({j \in DOMAIN tt_done : CarriedUsage(tt_done[j])})

\* C19 witness: three calls have ended, two with usage under different key
\* names and one without usage.
C19_Witness ==
    /\ Len(tt_done) = 3
    /\ tt_in_flight = 0
    /\ tt_request_count = 2
    /\ tt_total_input_tokens = 5
    /\ tt_total_output_tokens = 9
    /\ \E j \in DOMAIN tt_done : ~CarriedUsage(tt_done[j]) /\ tt_done[j].has_result

\* ------------------------------------------------------------------------
\* Properties of RAGTool.search
\* ------------------------------------------------------------------------
\* C20: search never raises: whatever fails (the service being unavailable
\* or failing while it is initialised, the retrieval, a conversion), it
\* returns a list, empty when the service or the retrieval failed and else
\* holding exactly the convertible documents.
C20_RagSearchNeverRaises ==
    /\ rg_pc # "raised"
    /\ rg_pc = "returned" =>
          IF rg_init \notin {None, "ok"} \/ rg_retrieved.kind # "ok"
          THEN rg_result = <<>>
          ELSE rg_result = ConvertDocs(rg_retrieved.docs, Len(rg_retrieved.docs))

\* ------------------------------------------------------------------------
\* C21: add_rag_tool and an unavailable RAG service
\* ------------------------------------------------------------------------
RagUnavailable == ar_rag_env # "ok"

\* C21: when the RAG dependencies or service are unavailable, add_rag_tool
\* leaves the tools list without the RAG tool, so execute never calls its
\* search and never lists "rag" in sources_searched.
C21_UnavailableRagNotAdded ==
    RagUnavailable =>
        /\ "rag" \notin Range(sh_tools)
        /\ "rag" \notin ar_queried
        /\ sh_pc = "returned" => "rag" \notin Range(sh_search_result.sources_searched)

\* ------------------------------------------------------------------------
\* C22: the evidence pool is append-only and duplicate-free within a run
\* ------------------------------------------------------------------------
IsPrefix(s, t) == Len(s) <= Len(t) /\ \A i \in DOMAIN s : s[i] = t[i]

\* C22: after any sequence of add_evidence calls no two items of the pool
\* have the same citation URL, the last call returned the number of items
\* it appended (0 when every given URL was already present, whatever the
\* content), and the pool as it was before the call is a prefix of the pool.
C22_PoolAppendOnlyDuplicateFree ==
    /\ \A i, j \in DOMAIN ep_evidence : ep_evidence[i].url = ep_evidence[j].url => i = j
    /\ ep_pc = "added" =>
          /\ IsPrefix(ep_prev, ep_evidence)
          /\ ep_count = Len(ep_evidence) - Len(ep_prev)
          /\ PoolURLs(ep_arg) \subseteq PoolURLs(ep_prev) => ep_count = 0
          /\ PoolURLs(ep_evidence) = PoolURLs(ep_prev) \cup PoolURLs(ep_arg)

\* A call that was given a known URL with other content and, twice, a new URL.
C22_Witness ==
    /\ ep_pc = "added"
    /\ Len(ep_arg) = 2
    /\ ep_count = 1
    /\ Len(ep_prev) >= 1
    /\ \E i \in DOMAIN ep_arg, j \in DOMAIN ep_prev :
          ep_arg[i].url = ep_prev[j].url /\ ep_arg[i].content # ep_prev[j].content

\* ------------------------------------------------------------------------
\* C24: ingestion into the RAG index is idempotent on the evidence's key
\* ------------------------------------------------------------------------
\* C24: ingesting evidence that was ingested before leaves the index as it
\* is after ingesting it once: no two documents of the index have the same
\* doc_id (the citation URL).
C24_IngestIdempotent ==
    \A i, j \in DOMAIN ix_nodes : ix_nodes[i].ref_doc_id = ix_nodes[j].ref_doc_id => i = j

\* ------------------------------------------------------------------------
\* C25: BioRxivTool.search fails with SearchError only
\* ------------------------------------------------------------------------
\* C25: whatever makes a search fail (error status, network failure,
\* timeout, malformed response), the exception that reaches the caller of
\* BioRxivTool.search is a SearchError.
C25_FailsWithSearchError ==
    bx_pc = "raised" => bx_result.type = "SearchError"

\* ------------------------------------------------------------------------
\* C26: the factory selects by explicit mode first, credentials second
\* ------------------------------------------------------------------------
\* A mode was passed (None and the empty string pass none).
ExplicitMode == co_mode \notin {None, ""}

\* The api_key values of the model that start with "sk-".
SkKeys == {Key(<<"s", "k", "-">>), Key(<<"s", "k", "-", "p", "r", "o", "j">>),
           Key(<<"s", "k", "-", "a", "n", "t">>)}

ExpectedMode ==
    IF ExplicitMode
    THEN CASE co_mode \in {"magentic", "advanced"} -> "advanced"
           [] co_mode = "hierarchical" -> "hierarchical"
           [] OTHER -> "simple"
    ELSE IF co_has_openai_key \/ co_api_key \in SkKeys THEN "advanced" ELSE "simple"

ClassOf(mode) ==
    CASE mode = "advanced" -> "AdvancedOrchestrator"
      [] mode = "hierarchical" -> "HierarchicalOrchestrator"
      [] OTHER -> "Orchestrator"

\* C26: an explicit mode decides the strategy whatever the keys are
\* (magentic and advanced give advanced, hierarchical gives hierarchical,
\* anything else simple); without one the strategy is advanced exactly when
\* an OpenAI key is configured or api_key starts with "sk-", else simple;
\* an orchestrator that is returned is of the selected strategy.
C26_ModeFirstThenCredentials ==
    co_pc \in {"returned", "raised"} =>
        /\ co_effective_mode = ExpectedMode
        /\ co_pc = "returned" => co_created = ClassOf(ExpectedMode)

\* An explicit simple mode wins over a configured OpenAI key and an sk- key.
C26_Witness ==
    /\ co_pc = "returned"
    /\ co_mode = "simple"
    /\ co_has_openai_key
    /\ co_api_key \in SkKeys
    /\ co_created = "Orchestrator"

\* ------------------------------------------------------------------------
\* C27: ResearchTeam.run is bounded by max_iterations
\* ------------------------------------------------------------------------
\* The rounds of the loop entered so far.
RoundsPerformed ==
    CASE rt_pc \in {"agent", "judge", "raised"} -> rt_i + 1
      [] rt_pc = "returned" /\ rt_return.status = "Max iterations reached" -> rt_i
      [] rt_pc = "returned" -> rt_i + 1
      [] OTHER -> 0

\* The run ended with the IndexError of a judge response without messages.
JudgeResponseWasEmpty ==
    /\ rt_pc = "raised"
    /\ rt_verdicts # <<>>
    /\ rt_verdicts[Len(rt_verdicts)] = ""

\* The run is over and no agent.run or judge.run call raised.
TeamRunOver == rt_pc = "returned" \/ JudgeResponseWasEmpty

\* C27: run never performs more than max_iterations rounds, and a run in
\* which no verdict contains SUFFICIENT (or without judge) performs exactly
\* max_iterations rounds and returns with status 'Max iterations reached'.
C27_BoundedByMaxIterations ==
    rt_pc # "idle" =>
        /\ RoundsPerformed <= rt_max_iterations
        /\ \A a \in DOMAIN rt_agent_runs : rt_agent_runs[a] <= rt_max_iterations
        /\ rt_judge_runs <= rt_max_iterations
        /\ (TeamRunOver /\ \A k \in DOMAIN rt_verdicts : ~VerdictEndsLoop(rt_verdicts[k]))
           => /\ rt_pc = "returned"
              /\ rt_return.status = "Max iterations reached"
              /\ RoundsPerformed = rt_max_iterations
              /\ \A a \in DOMAIN rt_agent_runs : rt_agent_runs[a] = rt_max_iterations
              /\ rt_has_judge => rt_judge_runs = rt_max_iterations

\* ------------------------------------------------------------------------
\* C28: order of the calls within a round of ResearchTeam.run
\* ------------------------------------------------------------------------
\* Calls per round: every agent, then the judge if there is one.
CallsPerRound == Len(rt_agents) + (IF rt_has_judge THEN 1 ELSE 0)

\* The conversation when call k is made: the task, then the reply of every
\* earlier call of the run that replied.
RECURSIVE ConversationBefore(_)
ConversationBefore(k) ==
    IF k <= 1 THEN <<Message("user", "task")>>
    ELSE ConversationBefore(k - 1) \o rt_calls[k - 1].reply

\* C28: call k of a run is made by the agent at position ((k-1) mod calls
\* per round)+1 of the list, or by the judge after the last agent; it
\* belongs to round (k-1) div calls per round; an agent is given the whole
\* conversation so far and the judge that conversation and its prompt.
C28_RoundOrder ==
    \A k \in DOMAIN rt_calls :
        LET pos == ((k - 1) % CallsPerRound) + 1
            call == rt_calls[k]
        IN  /\ call.round = (k - 1) \div CallsPerRound
            /\ IF pos <= Len(rt_agents)
               THEN /\ call.who = rt_agents[pos]
                    /\ call.given = ConversationBefore(k)
               ELSE /\ call.who = "judge"
                    /\ call.given = judge_context(ConversationBefore(k))

\* Second round of a team of two with a judge: the second agent is given
\* the task, both replies of round one, the verdict and the first agent's
\* reply of round two.
C28_Witness ==
    /\ Len(rt_agents) = 2
    /\ rt_has_judge
    /\ Len(rt_calls) = 5
    /\ rt_calls[5].who = rt_agents[2]
    /\ rt_calls[5].round = 1
    /\ Len(rt_calls[5].given) = 5
    /\ rt_calls[3].who = "judge"
    /\ ho_pc = "off"

\* ------------------------------------------------------------------------
\* C29: the node sequence of a run without LLM
\* ------------------------------------------------------------------------
\* supervisor, (search, supervisor) max_iterations times, synthesize.
ExpectedNode(k) ==
    IF k = 2 * sg_max_iterations + 2 THEN "synthesize"
    ELSE IF k % 2 = 1 THEN "supervisor"
    ELSE "search"

NodesRun(node) == Cardinality({k \in DOMAIN sg_events : sg_events[k].node = node})

\* C29: without LLM, a run started with iteration_count = 0 executes
\* supervisor, then search and supervisor max_iterations times, then
\* synthesize, and ends: search runs max_iterations times, judge and
\* resolve never.
C29_FallbackNodeSequence ==
    (~sg_has_llm /\ sg_initial_count = 0 /\ sg_at # "off") =>
        /\ Len(sg_events) <= 2 * sg_max_iterations + 2
        /\ \A k \in DOMAIN sg_events : sg_events[k].node = ExpectedNode(k)
        /\ IF Len(sg_events) = 2 * sg_max_iterations + 2
           THEN /\ sg_at = END
                /\ NodesRun("search") = sg_max_iterations
                /\ NodesRun("supervisor") = sg_max_iterations + 1
                /\ NodesRun("judge") = 0
                /\ NodesRun("resolve") = 0
           ELSE sg_at = ExpectedNode(Len(sg_events) + 1)

\* A finished run with max_iterations = 2: six nodes, two of them search.
C29_Witness ==
    /\ ~sg_has_llm
    /\ sg_initial_count = 0
    /\ sg_max_iterations = 2
    /\ sg_at = END
    /\ Len(sg_events) = 6
    /\ NodesRun("search") = 2

\* ------------------------------------------------------------------------
\* C30: the research graph terminates
\* ------------------------------------------------------------------------
\* The graph runtime executes the next node as long as there is one.
SpecGraphFair == InitGraph /\ [][GraphNext]_vars /\ WF_vars(GraphNext)

\* C30: whatever the supervisor's chain decides or however it fails, a run
\* started with iteration_count = 0 visits the supervisor at most
\* max_iterations + 1 times, never lets iteration_count exceed
\* max_iterations, and reaches the end of the graph.
C30_GraphTerminates ==
    /\ [](sg_initial_count = 0 /\ sg_at # "off" =>
            /\ NodesRun("supervisor") <= sg_max_iterations + 1
            /\ sg_iteration_count <= sg_max_iterations
            /\ Len(sg_events) <= 2 * sg_max_iterations + 2)
    /\ (sg_initial_count = 0 => <>(sg_at = END))

\* A run with an LLM that used every iteration on judge and resolve before
\* the cap sent it to synthesize.
C30_Witness ==
    /\ sg_has_llm
    /\ sg_initial_count = 0
    /\ sg_max_iterations = 2
    /\ sg_at = END
    /\ NodesRun("supervisor") = 3
    /\ NodesRun("judge") = 1
    /\ NodesRun("resolve") = 1
    /\ NodesRun("synthesize") = 1

\* ------------------------------------------------------------------------
\* C31: a non-retryable failure ends RetryMiddleware.process at once
\* ------------------------------------------------------------------------
\* An error the middleware must not retry: its response carries a status
\* outside retryable_status_codes, or it has no response and is neither a
\* timeout nor a connection error.
NonRetryable(outcome) ==
    /\ outcome # Ok
    /\ IF outcome.has_response
       THEN outcome.status \notin {429, 500, 502, 503, 504}
       ELSE outcome.name \notin {"ReadTimeout", "ConnectionError"}

\* C31: when a call of next has failed with a non-retryable error, that
\* call is the last one made, process has raised that very error, and the
\* only waits are those that followed the earlier (retryable) failures: no
\* further call of next and no wait after the non-retryable failure.
C31_NonRetryableRaisedAtOnce ==
    \A k \in DOMAIN rm_outcomes :
        NonRetryable(rm_outcomes[k]) =>
            /\ k = Len(rm_outcomes)
            /\ rm_pc = "raised"
            /\ rm_raised = <<rm_outcomes[k], k>>
            /\ Len(rm_sleeps) = k - 1

\* C31 witness: after one retryable failure, next fails with a 404 response
\* whose type name contains "timeout"; process has raised it after one wait.
C31_Witness ==
    /\ rm_max_attempts = 3
    /\ rm_outcomes = <<Error(TRUE, 500, "Exception"), Error(TRUE, 404, "ReadTimeout")>>
    /\ rm_pc = "raised"
    /\ rm_raised = <<Error(TRUE, 404, "ReadTimeout"), 2>>
    /\ rm_sleeps = <<0>>

\* ------------------------------------------------------------------------
\* C32: a normal return of RetryMiddleware.process means next succeeded
\* ------------------------------------------------------------------------
\* C32: whenever process has returned normally, next was called at least
\* once and its last call completed without raising.
C32_ReturnMeansNextSucceeded ==
    rm_pc = "returned" =>
        /\ Len(rm_outcomes) >= 1
        /\ rm_outcomes[Len(rm_outcomes)] = Ok

\* ------------------------------------------------------------------------
\* C33: a judge response without messages
\* ------------------------------------------------------------------------
\* The last await of the run was a judge call that answered without
\* messages (its verdict was taken as "").
LastJudgeCallWasEmpty ==
    /\ rt_calls # <<>>
    /\ rt_calls[Len(rt_calls)].who = "judge"
    /\ Len(rt_verdicts) = rt_judge_runs
    /\ rt_verdicts # <<>>
    /\ rt_verdicts[Len(rt_verdicts)] = ""

\* C33: after a judge call that answered without messages the run has not
\* raised, the conversation is the one the judge was given without the
\* judge prompt (nothing was appended), and the run went on to the next
\* round (or, the rounds used up, returned 'Max iterations reached').
C33_EmptyJudgeResponseTolerated ==
    LastJudgeCallWasEmpty =>
        LET call == rt_calls[Len(rt_calls)]
        IN  /\ rt_pc # "raised"
            /\ rt_context = SubSeq(call.given, 1, Len(call.given) - 1)
            /\ rt_i = call.round + 1
            /\ rt_pc = "returned" => rt_return.status = "Max iterations reached"

\* ------------------------------------------------------------------------
\* C34: only an affirmative verdict ends ResearchTeam.run early
\* ------------------------------------------------------------------------
\* A verdict that denies sufficiency.
DeniesSufficiency(verdict) == verdict \in {"CONTINUE", "INSUFFICIENT", "NOT SUFFICIENT"}

\* C34: when run has returned from inside the loop (its status is the
\* verdict, not 'Max iterations reached'), the verdict that ended it does
\* not deny sufficiency; and after a denying verdict the run is in the
\* next round or has returned with 'Max iterations reached'.
C34_DenyingVerdictNeverEndsLoop ==
    /\ (rt_pc = "returned" /\ rt_return.status # "Max iterations reached")
       => /\ rt_verdicts # <<>>
          /\ ~DeniesSufficiency(rt_verdicts[Len(rt_verdicts)])
    /\ (rt_pc = "returned" /\ rt_verdicts # <<>>
        /\ DeniesSufficiency(rt_verdicts[Len(rt_verdicts)]))
       => /\ rt_return.status = "Max iterations reached"
          /\ rt_i = rt_max_iterations

\* ------------------------------------------------------------------------
\* C35: max_rounds of HierarchicalOrchestrator and the rounds of its teams
\* ------------------------------------------------------------------------
\* C35: during and after a run of the orchestrator, the team that is
\* running or has last run has performed (entered) at most max_rounds
\* rounds, and no agent or judge of it was run more often than that.
C35_TeamRoundsWithinMaxRounds ==
    ho_pc \notin {"off", "new"} =>
        /\ RoundsPerformed <= ho_max_rounds
        /\ \A a \in DOMAIN rt_agent_runs : rt_agent_runs[a] <= ho_max_rounds
        /\ rt_judge_runs <= ho_max_rounds

\* ------------------------------------------------------------------------
\* C36: TokenTrackingMiddleware under concurrent process calls
\* ------------------------------------------------------------------------
\* C36: when process calls were waiting in their await of next at the same
\* time and all calls have returned, the totals are the sums of the token
\* counts of the responses that carried usage and request_count is the
\* number of those responses, in whatever order the calls were resumed.
C36_NoLostUpdate ==
    (tt_peak >= 2 /\ tt_in_flight = 0) =>
        /\ tt_total_input_tokens = SumInput(tt_done, Len(tt_done))
        /\ tt_total_output_tokens = SumOutput(tt_done, Len(tt_done))
        /\ tt_request_count = Cardinality({j \in DOMAIN tt_done : CarriedUsage(tt_done[j])})

\* C36 witness: two calls were waiting at once, both responses carried
\* usage (3/5 and 2/4 tokens), both calls have returned and both updates
\* are in the totals.
C36_Witness ==
    /\ tt_peak = 2
    /\ tt_in_flight = 0
    /\ Len(tt_done) = 2
    /\ CarriedUsage(tt_done[1]) /\ CarriedUsage(tt_done[2])
    /\ tt_request_count = 2
    /\ tt_total_input_tokens = 5
    /\ tt_total_output_tokens = 9

\* ------------------------------------------------------------------------
\* C37: the result of execute does not depend on the completion order
\* ------------------------------------------------------------------------
\* What the tools 1..n did, listed in registration order: the items of the
\* tools that returned, the names of those tools, the names of the others.
RECURSIVE EvidenceInOrder(_, _)
EvidenceInOrder(outcomes, n) ==
    IF n = 0 THEN <<>>
    ELSE EvidenceInOrder(outcomes, n - 1)
         \o (IF outcomes[n].kind = "ok" THEN outcomes[n].items ELSE <<>>)

RECURSIVE ToolsInOrder(_, _, _, _)
ToolsInOrder(tools, outcomes, n, returned) ==
    IF n = 0 THEN <<>>
    ELSE ToolsInOrder(tools, outcomes, n - 1, returned)
         \o (IF (outcomes[n].kind = "ok") = returned THEN <<tools[n]>> ELSE <<>>)

\* C37: the SearchResult that execute returns is determined by the tools
\* and by what each tool did, listed in registration order; the order in
\* which the tasks ended (sc_order, any permutation) has no part in it.
C37_ResultIndependentOfCompletionOrder ==
    sh_pc = "returned" =>
        /\ sh_search_result.evidence = EvidenceInOrder(sh_outcomes, Len(sh_tools))
        /\ sh_search_result.sources_searched =
              ToolsInOrder(sh_tools, sh_outcomes, Len(sh_tools), TRUE)
        /\ [k \in DOMAIN sh_search_result.errors |-> sh_search_result.errors[k].tool]
              = ToolsInOrder(sh_tools, sh_outcomes, Len(sh_tools), FALSE)
        /\ \A k \in DOMAIN sh_search_result.errors :
              \E i \in DOMAIN sh_tools :
                 /\ sh_tools[i] = sh_search_result.errors[k].tool
                 /\ sh_search_result.errors[k].msg = sh_results[i].msg

\* C37 witness: three tools; the third task ended first, then the first,
\* then the second; the first and the third tool returned an item and the
\* second failed; the result lists the first tool's item before the third's.
C37_Witness ==
    /\ sh_pc = "returned"
    /\ sh_tools = <<"pubmed", "europepmc", "web_search">>
    /\ sc_order = <<3, 1, 2>>
    /\ sh_outcomes[2].kind = "SearchError"
    /\ sh_search_result.evidence =
          <<Evidence("pubmed", "doi.org/10.1/ab"), Evidence("web", "doi.org/10.1/ab")>>
    /\ sh_search_result.sources_searched = <<"pubmed", "web_search">>
    /\ Len(sh_search_result.errors) = 1

\* ------------------------------------------------------------------------
\* C38: the retry loop of the writer agents
\* ------------------------------------------------------------------------
\* The run raised a TimeoutError or a ConnectionError (or a subclass).
TransientRun(outcome) ==
    /\ outcome.kind = "raise"
    /\ outcome.name \in {"TimeoutError", "ConnectionError", "ConnectionResetError"}

\* The run gave an output the caller can use: not empty, not blank, and for
\* the long writer of the declared type.
UsableRun(agent, outcome) ==
    /\ outcome.kind = "output"
    /\ outcome.text \notin {"", "  "}
    /\ agent = "LongWriterAgent" => outcome.typed

\* The fallback built from the arguments of the call.
ExpectedFallback ==
    IF wr_agent = "WriterAgent"
    THEN [kind |-> "fallback", heading |-> wr_inputs.query,
          body |-> IF wr_inputs.body = "long" THEN "long[:500]..." ELSE wr_inputs.body,
          references |-> <<>>]
    ELSE [kind |-> "fallback", heading |-> wr_inputs.query, body |-> wr_inputs.body,
          references |-> <<>>]

====
